---------------------------- MODULE Spec2Model ----------------------------
(***************************************************************************)
(* A model of the GROQ client (utils/groq_client.py), of the change        *)
(* tracker and the documentation of the documentation agent                *)
(* (agents/documentation_agent.py), of the agents main() runs and of       *)
(* main() itself (main.py), and of the chat agent (agents/chat_agent.py).  *)
(*                                                                         *)
(* Python strings are TLA+ strings; the string methods the code uses       *)
(* (endswith, rstrip, the substring test `in`, concatenation, splitlines)  *)
(* are operators over them.  A Python call that can raise is an operator   *)
(* whose value names the exception, so that "raises" and "returns" are     *)
(* both outcomes a formula can speak about.                                *)
(***************************************************************************)
EXTENDS Integers, Sequences, FiniteSets, TLC

VARIABLES
    configured_endpoint,  \* the api_endpoint argument given to GROQClient(...)
    api_endpoint,         \* GROQClient.api_endpoint
    caller_messages,      \* the caller's messages list object (input_data["messages"])
    sent,                 \* the request the last client call handed to requests.post
    upstream,             \* what the transport answered to it
    args,                 \* the arguments of the last client call
    last,                 \* the outcome of the last client call
    calls,                \* number of client calls made
    file_snapshots,       \* DocumentationAgent.file_snapshots
    changes,              \* DocumentationAgent.changes
    clock,                \* the time datetime.now() reads
    disk,                 \* the files on disk, path -> content
    last_op,              \* the last tracker operation or file write
    documentation,        \* the outcome of the last generate_documentation call
    doc_files,            \* the files of config.output_dir, name -> content
    pc,                   \* the statement main executes next
    stages,               \* the stages main has finished, in order
    raised,               \* the exception that left main, "none" without one
    tech_stack,           \* main's tech_stack
    build_status,         \* main's status (the build status)
    build_prediction,     \* main's prediction
    called,               \* the last call of an agent method: its arguments and result
    pr_comments           \* the comments posted to the pull request, in order

client_vars == <<configured_endpoint, api_endpoint, caller_messages, sent,
                 upstream, args, last, calls>>
tracker_vars == <<file_snapshots, changes, clock, disk, last_op>>
doc_vars == <<documentation, doc_files>>
main_vars == <<pc, stages, raised, tech_stack, build_status, build_prediction>>
agent_vars == <<called, pr_comments>>
vars == <<client_vars, tracker_vars, doc_vars, main_vars, agent_vars>>

---------------------------------------------------------------------------
(* Bounds of the model *)
MaxTrailingSlashes == 2
MaxCalls == 2
MaxChanges == 2

---------------------------------------------------------------------------
(* Python string methods *)

\* s.endswith(suffix)
EndsWith(s, suffix) ==
    /\ Len(s) >= Len(suffix)
    /\ SubSeq(s, Len(s) - Len(suffix) + 1, Len(s)) = suffix

\* s.startswith(prefix)
StartsWith(s, prefix) ==
    /\ Len(s) >= Len(prefix)
    /\ SubSeq(s, 1, Len(prefix)) = prefix

\* sub in s
Contains(s, sub) ==
    \E i \in 1..(Len(s) - Len(sub) + 1) : SubSeq(s, i, i + Len(sub) - 1) = sub

\* s.rstrip("/")
RECURSIVE RStripSlash(_)
RStripSlash(s) ==
    IF Len(s) > 0 /\ SubSeq(s, Len(s), Len(s)) = "/"
    THEN RStripSlash(SubSeq(s, 1, Len(s) - 1))
    ELSE s

\* "/" * n
RECURSIVE Slashes(_)
Slashes(n) == IF n = 0 THEN "" ELSE "/" \o Slashes(n - 1)

\* number of non-overlapping occurrences of sub in s (s.count(sub))
RECURSIVE Count(_, _)
Count(s, sub) ==
    IF Len(s) < Len(sub) THEN 0
    ELSE IF SubSeq(s, 1, Len(sub)) = sub
         THEN 1 + Count(SubSeq(s, Len(sub) + 1, Len(s)), sub)
         ELSE Count(SubSeq(s, 2, Len(s)), sub)

---------------------------------------------------------------------------
(* GROQClient: endpoint handling *)

CompletionPath == "openai/v1/chat/completions"

\* GROQClient.__init__: trailing slashes are removed from the endpoint
InitEndpoint(endpoint) ==
    IF EndsWith(endpoint, "/") THEN RStripSlash(endpoint) ELSE endpoint

\* the "Ensure correct API endpoint" block of each send method
RequestURLEndsWith(endpoint) ==
    IF ~EndsWith(endpoint, CompletionPath)
    THEN (IF EndsWith(endpoint, "/") THEN RStripSlash(endpoint) ELSE endpoint)
             \o "/" \o CompletionPath
    ELSE endpoint

RequestURLNoSlash(endpoint) ==
    IF ~Contains(endpoint, CompletionPath)
    THEN (IF EndsWith(endpoint, "/") THEN RStripSlash(endpoint) ELSE endpoint)
             \o CompletionPath
    ELSE endpoint

RequestURL(endpoint) ==
    IF ~Contains(endpoint, CompletionPath)
    THEN (IF EndsWith(endpoint, "/") THEN RStripSlash(endpoint) ELSE endpoint)
             \o "/" \o CompletionPath
    ELSE endpoint

\* the endpoints a deployment may configure: a base host, or a longer URL,
\* followed by zero or more slashes
EndpointStems ==
    { "https://api.example.com",
      "https://api.groq.com/openai/v1",
      "https://api.groq.com/openai/v1/chat/completions",
      "https://api.groq.com/openai/v1/chat/completions/v2",
      "api.example.com" }

ConfiguredEndpoints ==
    { stem \o Slashes(n) : stem \in EndpointStems, n \in 0..MaxTrailingSlashes }


---------------------------------------------------------------------------
(* JSON values, as Python sees them after response.json() *)

JAbsent == [t |-> "absent"]          \* the key is not in the mapping
JNull == [t |-> "null"]              \* None
JNum == [t |-> "num"]                \* a number
JStr(s) == [t |-> "str", s |-> s]    \* a string
JList(items) == [t |-> "list", items |-> items]
JEmptyDict == [t |-> "dict"]         \* {}
JBool(b) == [t |-> "bool", b |-> b]  \* True, False
JInt(n) == [t |-> "num", n |-> n]    \* an int whose value matters
JDict(d) == [t |-> "dict", d |-> d]  \* a dict, as a function of its keys

\* the message contents X the upstream service may answer
ReplyTexts == { "", "ok", " padded \n" }

ContentValues == { JAbsent, JNull, JNum } \cup { JStr(x) : x \in ReplyTexts }

MessageValues ==
    { JAbsent, JNull } \cup { [t |-> "dict", content |-> c] : c \in ContentValues }

ChoiceValues ==
    { [t |-> "str"] } \cup { [t |-> "dict", message |-> m] : m \in MessageValues }

ChoicesValues ==
    { JAbsent, JNull, JList(<<>>) }
        \cup { JList(<<c>>) : c \in ChoiceValues }
        \cup { JList(<<[t |-> "dict", message |-> [t |-> "dict", content |-> JStr("ok")]],
                       [t |-> "dict", message |-> [t |-> "dict", content |-> JStr("")]]>>) }

ModelValues == { JAbsent, JStr("llama3-8b-8192") }
UsageValues == { JAbsent, [t |-> "dict", total_tokens |-> 7] }

WellFormedChoices ==
    JList(<<[t |-> "dict", message |-> [t |-> "dict", content |-> JStr("ok")]]>>)

\* response bodies: not JSON at all, JSON that is no mapping, or a mapping
Bodies ==
    { [json |-> "invalid"], [json |-> "null"], [json |-> "list"] }
        \cup { [json |-> "object", choices |-> c, model |-> JAbsent, usage |-> JAbsent] :
                 c \in ChoicesValues }
        \cup { [json |-> "object", choices |-> WellFormedChoices, model |-> m, usage |-> u] :
                 m \in ModelValues, u \in UsageValues }

NoBody == [json |-> "none"]

\* what the transport can answer: a network failure, or a status with a body
Statuses == { 200, 201, 304, 404, 500 }

Upstreams ==
    { [net |-> n, status |-> 0, body |-> NoBody] : n \in { "ConnectionError", "Timeout" } }
        \cup { [net |-> "ok", status |-> 200, body |-> b] : b \in Bodies }
        \cup { [net |-> "ok", status |-> s, body |-> b] :
                 s \in Statuses \ { 200 },
                 b \in { [json |-> "invalid"],
                         [json |-> "object", choices |-> JAbsent,
                          model |-> JAbsent, usage |-> JAbsent],
                         [json |-> "object", choices |-> WellFormedChoices,
                          model |-> JAbsent, usage |-> JAbsent] } }

NoUpstream == [net |-> "none", status |-> 0, body |-> NoBody]

---------------------------------------------------------------------------
(* The transport and the extraction shared by the three send methods *)

\* requests.post(endpoint, ...): a URL without a scheme is refused before
\* anything is sent (MissingSchema); otherwise the transport answers
HasScheme(url) == StartsWith(url, "http://") \/ StartsWith(url, "https://")

Post(url) ==
    IF ~HasScheme(url)
    THEN { [net |-> "MissingSchema", status |-> 0, body |-> NoBody] }
    ELSE Upstreams

\* response.raise_for_status(): HTTPError for 4xx and 5xx
RaiseForStatusNever(status) == FALSE

RaiseForStatus(status) == 400 <= status /\ status < 600

\* lines 61-73: the exception raised before the body is looked at, or "none"
ReceiveExc(resp) ==
    IF resp.net # "ok" THEN resp.net
    ELSE IF RaiseForStatus(resp.status) THEN "HTTPError"
    ELSE IF resp.body.json = "invalid" THEN "JSONDecodeError"
    ELSE "none"

\* `"choices" in groq_response and len(groq_response["choices"]) > 0`:
\* "yes", "no", or "TypeError" when the operand has no `in` or no len()
HasChoices(body) ==
    IF body.json = "null" THEN "TypeError"
    ELSE IF body.json = "list" THEN "no"
    ELSE IF body.choices.t = "absent" THEN "no"
    ELSE IF body.choices.t # "list" THEN "TypeError"
    ELSE IF Len(body.choices.items) > 0 THEN "yes" ELSE "no"

\* groq_response["choices"][0].get("message", {}).get("content", "")
FirstContentTrimmed(body) ==
    LET first == body.choices.items[1] IN
    IF first.t # "dict" THEN [exc |-> "AttributeError", content |-> JAbsent]
    ELSE IF first.message.t = "absent" THEN [exc |-> "none", content |-> JStr("")]
    ELSE IF first.message.t # "dict" THEN [exc |-> "AttributeError", content |-> JAbsent]
    ELSE IF first.message.content.t = "absent" THEN [exc |-> "none", content |-> JStr("")]
    ELSE IF first.message.content.t = "str"
         THEN [exc |-> "none",
               content |-> JStr(IF StartsWith(first.message.content.s, " ")
                                THEN SubSeq(first.message.content.s, 2,
                                            Len(first.message.content.s))
                                ELSE first.message.content.s)]
    ELSE [exc |-> "none", content |-> first.message.content]

FirstContent(body) ==
    LET first == body.choices.items[1] IN
    IF first.t # "dict" THEN [exc |-> "AttributeError", content |-> JAbsent]
    ELSE IF first.message.t = "absent" THEN [exc |-> "none", content |-> JStr("")]
    ELSE IF first.message.t # "dict" THEN [exc |-> "AttributeError", content |-> JAbsent]
    ELSE IF first.message.content.t = "absent" THEN [exc |-> "none", content |-> JStr("")]
    ELSE [exc |-> "none", content |-> first.message.content]

\* a pydantic `str` field accepts a str only
IsStr(v) == v.t = "str"

\* what a call leaves behind: the result it returned, or the exception it raised
NoValue == [t |-> "novalue"]
Returned(kind, value) == [kind |-> kind, raised |-> "none", value |-> value]
Raised(kind, exc) == [kind |-> kind, raised |-> exc, value |-> NoValue]
NoArgs == [none |-> TRUE]
NoCall == [kind |-> "none", raised |-> "none", value |-> NoValue]

---------------------------------------------------------------------------
(* send_inference_request: the messages of a text request *)

\* the paragraph appended to an existing system message (line 39)
ExpertiseParagraph ==
    "\n\nYou are an expert in frontend development and DevOps for frontend applications. You understand modern JavaScript frameworks, build tools, and frontend deployment pipelines. You can identify and solve issues related to frontend performance, bundle optimization, and CI/CD workflows for web applications."

\* a message mapping, and a list element that is no mapping
Msg(d) == [t |-> "dict", d |-> d]
NotAMapping == [t |-> "str"]

\* d.get(key, default)
Get(d, key, default) == IF key \in DOMAIN d THEN d[key] ELSE default

\* the lists a caller may pass as input_data["messages"]
MessageLists ==
    { <<>>,
      <<Msg([role |-> "system", content |-> "You are a build analyst."]),
        Msg([role |-> "user", content |-> "Will it build?"])>>,
      <<Msg([role |-> "user", content |-> "Will it build?"])>>,
      <<Msg([role |-> "user", content |-> "Will it build?"]),
        Msg([role |-> "system", content |-> "You are a build analyst."])>>,
      <<Msg([role |-> "system"])>>,
      <<Msg([content |-> "no role"])>>,
      <<NotAMapping>> }

ModelId == "llama3-8b-8192"

\* lines 35-36: the exception raised before the try block, or "none"
PrepareExc(has_messages, messages) ==
    IF ~has_messages THEN "KeyError"
    ELSE IF Len(messages) > 0 /\ messages[1].t # "dict" THEN "AttributeError"
    ELSE "none"

IsSystemFirst(messages) ==
    /\ Len(messages) > 0
    /\ messages[1].t = "dict"
    /\ Get(messages[1].d, "role", "None") = "system"

\* lines 36-40: the caller's list after the call (it is modified in place)
EnhanceMessagesOnce(messages) ==
    IF IsSystemFirst(messages)
       /\ ~EndsWith(Get(messages[1].d, "content", ""), ExpertiseParagraph)
    THEN [messages EXCEPT ![1] =
             Msg([k \in DOMAIN messages[1].d \cup { "content" } |->
                     IF k = "content"
                     THEN Get(messages[1].d, "content", "") \o ExpertiseParagraph
                     ELSE messages[1].d[k]])]
    ELSE messages

SynthesizeSystem(messages) ==
    IF IsSystemFirst(messages)
    THEN [messages EXCEPT ![1] =
             Msg([k \in DOMAIN messages[1].d \cup { "content" } |->
                     IF k = "content"
                     THEN Get(messages[1].d, "content", "") \o ExpertiseParagraph
                     ELSE messages[1].d[k]])]
    ELSE <<Msg([role |-> "system", content |-> ExpertiseParagraph])>> \o messages

EnhanceMessages(messages) ==
    IF IsSystemFirst(messages)
    THEN [messages EXCEPT ![1] =
             Msg([k \in DOMAIN messages[1].d \cup { "content" } |->
                     IF k = "content"
                     THEN Get(messages[1].d, "content", "") \o ExpertiseParagraph
                     ELSE messages[1].d[k]])]
    ELSE messages

NoRequest == [url |-> "", model |-> "", messages |-> <<>>]

---------------------------------------------------------------------------
(* The result models (models/groq_models.py) and the three transformations *)

NoResponseText == "No response from GROQ API"

\* InferenceResponse
TextSuccess(content) ==
    [prediction |-> [content |-> content], confidence |-> 1, status |-> "success"]
TextNoResponseSuccess ==
    [prediction |-> [content |-> JStr("")], confidence |-> 0, status |-> "success"]
TextNoResponse ==
    [prediction |-> [content |-> JStr(NoResponseText)], confidence |-> 0, status |-> "error"]
TextError(e) ==
    [prediction |-> [error |-> e], confidence |-> 0, status |-> "error"]

\* CodeReviewFeedback
ReviewSuccessWarning(description) ==
    [issues |-> <<[description |-> description, severity |-> "warn"]>>,
     suggestions |-> <<[description |-> "See above feedback", priority |-> "medium"]>>,
     overall_quality |-> "needs_review"]
ReviewSuccess(description) ==
    [issues |-> <<[description |-> description, severity |-> "info"]>>,
     suggestions |-> <<[description |-> "See above feedback", priority |-> "medium"]>>,
     overall_quality |-> "needs_review"]
ReviewNoResponse ==
    [issues |-> <<[description |-> NoResponseText, severity |-> "error"]>>,
     suggestions |-> <<>>,
     overall_quality |-> "needs_review"]
ReviewError(e) ==
    [issues |-> <<[description |-> "Error: " \o e, severity |-> "error"]>>,
     suggestions |-> <<>>,
     overall_quality |-> "needs_review"]

\* ChatCreateResponse
ChatMetadataEmptyModel(body) ==
    [model |-> IF body.model.t = "absent" THEN JEmptyDict ELSE body.model,
     usage |-> IF body.usage.t = "absent" THEN JEmptyDict ELSE body.usage]
ChatMetadata(body) ==
    [model |-> IF body.model.t = "absent" THEN JStr("") ELSE body.model,
     usage |-> IF body.usage.t = "absent" THEN JEmptyDict ELSE body.usage]
ChatSuccess(response, body) == [response |-> response, metadata |-> ChatMetadata(body)]
ChatNoResponse ==
    [response |-> NoResponseText, metadata |-> [error |-> "Empty response"]]
ChatError(e) == [response |-> "Error: " \o e, metadata |-> [error |-> e]]

\* the branch taken for a body that was received and parsed (lines 77-93,
\* 198-223, 303-320): the exception it raises, or the result it builds
TransformText(body) ==
    LET hc == HasChoices(body) IN
    IF hc = "TypeError" THEN [exc |-> "TypeError", value |-> NoValue]
    ELSE IF hc = "no" THEN [exc |-> "none", value |-> TextNoResponse]
    ELSE LET fc == FirstContent(body) IN
         IF fc.exc # "none" THEN [exc |-> fc.exc, value |-> NoValue]
         ELSE [exc |-> "none", value |-> TextSuccess(fc.content)]

TransformReview(body) ==
    LET hc == HasChoices(body) IN
    IF hc = "TypeError" THEN [exc |-> "TypeError", value |-> NoValue]
    ELSE IF hc = "no" THEN [exc |-> "none", value |-> ReviewNoResponse]
    ELSE LET fc == FirstContent(body) IN
         IF fc.exc # "none" THEN [exc |-> fc.exc, value |-> NoValue]
         ELSE IF ~IsStr(fc.content) THEN [exc |-> "ValidationError", value |-> NoValue]
         ELSE [exc |-> "none", value |-> ReviewSuccess(fc.content.s)]

TransformChat(body) ==
    LET hc == HasChoices(body) IN
    IF hc = "TypeError" THEN [exc |-> "TypeError", value |-> NoValue]
    ELSE IF hc = "no" THEN [exc |-> "none", value |-> ChatNoResponse]
    ELSE LET fc == FirstContent(body) IN
         IF fc.exc # "none" THEN [exc |-> fc.exc, value |-> NoValue]
         ELSE IF ~IsStr(fc.content) THEN [exc |-> "ValidationError", value |-> NoValue]
         ELSE [exc |-> "none", value |-> ChatSuccess(fc.content.s, body)]

\* the kind's error result, built by the `except Exception` handler
ErrorResult(kind, e) ==
    IF kind = "text" THEN TextError(e)
    ELSE IF kind = "review" THEN ReviewError(e)
    ELSE ChatError(e)

Transform(kind, body) ==
    IF kind = "text" THEN TransformText(body)
    ELSE IF kind = "review" THEN TransformReview(body)
    ELSE TransformChat(body)

\* the try block with its two handlers: `except ValidationError: raise`, then
\* `except Exception: return <error result>`
HandleCatchAll(kind, exc) == Returned(kind, ErrorResult(kind, exc))

Handle(kind, exc) ==
    IF exc = "ValidationError" THEN Raised(kind, exc)
    ELSE Returned(kind, ErrorResult(kind, exc))

Outcome(kind, resp) ==
    LET rexc == ReceiveExc(resp) IN
    IF rexc # "none" THEN Handle(kind, rexc)
    ELSE LET tr == Transform(kind, resp.body) IN
         IF tr.exc # "none" THEN Handle(kind, tr.exc)
         ELSE Returned(kind, tr.value)

---------------------------------------------------------------------------
(* send_code_review_request and send_chat_create_request: the payloads *)

\* system_prompt (lines 113-132)
ReviewSystemPrompt ==
    "You are a frontend code review expert specializing in modern web development.\n\nYour expertise includes:\n1. Modern JavaScript/TypeScript frameworks (React, Vue, Angular, Svelte)\n2. Frontend build tools and bundlers (Webpack, Vite, Rollup)\n3. CSS frameworks and methodologies (Tailwind, SCSS, CSS Modules, styled-components)\n4. Frontend performance optimization and best practices\n5. Web accessibility standards and implementation\n6. Frontend testing strategies (unit, integration, E2E tests)\n7. Frontend CI/CD pipelines and deployment workflows\n\nWhen reviewing frontend code, focus on:\n- Component structure and reusability\n- State management approaches\n- Responsive design implementation\n- Browser compatibility considerations\n- Frontend performance optimizations\n- Build configuration improvements\n\nProvide actionable, specific feedback that improves both code quality and the developer experience."

\* user_prompt (lines 135-156), an f-string over the request's three fields
\* (the code fence, three backquotes, is written ~~~ here: a TLA+ string
\* cannot hold a backquote)
ReviewUserPrompt(req) ==
    "Review the following frontend code:\n\n~~~\n"
        \o req.code \o
    "\n~~~\n\nFile: "
        \o req.file_name \o
    "\nLanguage: "
        \o req.language \o
    "\n\nConsider:\n- Component architecture and reusability\n- Performance and optimization opportunities\n- UI/UX implementation quality\n- Build and deployment considerations\n- Frontend testing approach\n- Modern frontend best practices\n\nStructure your review with:\n1. Overall assessment of code quality\n2. Key issues that should be addressed\n3. Specific improvement suggestions\n4. Best practices to consider"

ReviewMessages(req) ==
    <<Msg([role |-> "system", content |-> ReviewSystemPrompt]),
      Msg([role |-> "user", content |-> ReviewUserPrompt(req)])>>

\* CodeReviewRequest; an Optional field left out formats as "None"
CodeReviewRequests ==
    { [code |-> "const a = 1", file_name |-> "a.js", language |-> "javascript"],
      [code |-> "", file_name |-> "None", language |-> "None"] }

\* the fixed context that replaces the default one (lines 247-260)
FrontendDevOpsContext ==
    "You are a specialized frontend DevOps assistant with expertise in:\n\n1. Frontend build systems (Webpack, Vite, Rollup, esbuild)\n2. Frontend testing automation (Jest, Testing Library, Cypress, Playwright)\n3. Frontend CI/CD pipelines optimized for web applications\n4. Static site deployment and hosting solutions\n5. Frontend performance monitoring and optimization\n6. JavaScript/TypeScript bundling, minification, and optimization\n7. Asset optimization for web delivery\n8. Frontend-specific Docker configurations\n9. CDN configuration and edge deployments\n10. Progressive Web App (PWA) implementation and delivery\n\nYou provide practical guidance on developing, testing, and deploying modern frontend applications using DevOps principles. Your recommendations focus on improving developer experience, build performance, and deployment efficiency for web applications."

DefaultContextPhrase == "You are a helpful AI assistant"

\* lines 245-260
EnhancedContext(context) ==
    IF Contains(context, DefaultContextPhrase) THEN FrontendDevOpsContext ELSE context

ChatMessages(req) ==
    <<Msg([role |-> "system", content |-> EnhancedContext(req.context)]),
      Msg([role |-> "user", content |-> req.user_message])>>

\* ChatCreateRequest
ChatCreateRequests ==
    { [model_id |-> ModelId, user_message |-> "How do I cache npm?", context |-> c] :
        c \in { "You are a helpful AI assistant.", "You are a release manager." } }

---------------------------------------------------------------------------
(* The client: state after construction, and one action per send method *)

\* the configurations and inputs looked at: every endpoint with the usual
\* messages, and every messages list with the usual endpoint (the endpoint
\* and the messages are handled by separate statements)
UsualEndpoint == "https://api.example.com"
UsualMessages ==
    <<Msg([role |-> "system", content |-> "You are a build analyst."]),
      Msg([role |-> "user", content |-> "Will it build?"])>>

ClientInit ==
    /\ configured_endpoint \in ConfiguredEndpoints
    /\ api_endpoint = InitEndpoint(configured_endpoint)
    /\ caller_messages \in MessageLists
    /\ configured_endpoint = UsualEndpoint \/ caller_messages = UsualMessages
    /\ sent = NoRequest
    /\ upstream = NoUpstream
    /\ args = NoArgs
    /\ last = NoCall
    /\ calls = 0

\* GROQClient.send_inference_request(model_id, input_data), where input_data
\* holds the caller's list under "messages", or has no such key; the
\* transport answers with one of Upstreams
send_inference_request(has_messages) ==
    /\ calls < MaxCalls
    /\ calls' = calls + 1
    /\ args' = [has_messages |-> has_messages]
    /\ LET exc == PrepareExc(has_messages, caller_messages)
           messages == EnhanceMessages(caller_messages)
           endpoint == RequestURL(api_endpoint)
           answers == Post(endpoint)
       IN  IF exc # "none"
           THEN /\ last' = Raised("text", exc)
                /\ sent' = NoRequest
                /\ upstream' = NoUpstream
                /\ UNCHANGED caller_messages
           ELSE /\ caller_messages' = messages
                /\ sent' = [url |-> endpoint, model |-> ModelId, messages |-> messages]
                /\ \E resp \in answers :
                      /\ upstream' = resp
                      /\ last' = Outcome("text", resp)
    /\ UNCHANGED <<configured_endpoint, api_endpoint>>

\* GROQClient.send_code_review_request(model_id, code_review_request)
send_code_review_request(req) ==
    /\ calls < MaxCalls
    /\ calls' = calls + 1
    /\ args' = req
    /\ LET endpoint == RequestURL(api_endpoint)
           answers == Post(endpoint)
       IN  /\ sent' = [url |-> endpoint, model |-> ModelId, messages |-> ReviewMessages(req)]
           /\ \E resp \in answers :
                 /\ upstream' = resp
                 /\ last' = Outcome("review", resp)
    /\ UNCHANGED <<configured_endpoint, api_endpoint, caller_messages>>

\* GROQClient.send_chat_create_request(chat_create_request)
send_chat_create_request(req) ==
    /\ calls < MaxCalls
    /\ calls' = calls + 1
    /\ args' = req
    /\ LET endpoint == RequestURL(api_endpoint)
           answers == Post(endpoint)
       IN  /\ sent' = [url |-> endpoint, model |-> req.model_id, messages |-> ChatMessages(req)]
           /\ \E resp \in answers :
                 /\ upstream' = resp
                 /\ last' = Outcome("chat", resp)
    /\ UNCHANGED <<configured_endpoint, api_endpoint, caller_messages>>

---------------------------------------------------------------------------
(* Text files, str.splitlines() and difflib.unified_diff, as record_change  *)
(* uses them (lines 104-111).  Indices are Python's: 0-based, the upper one *)
(* exclusive; a[i + 1] is Python's a[i].                                    *)

\* the index of the first "\n" of s at or after index i, or 0
FirstNewline(s, i) ==
    IF \E j \in i..Len(s) : SubSeq(s, j, j) = "\n"
    THEN CHOOSE j \in i..Len(s) :
             /\ SubSeq(s, j, j) = "\n"
             /\ \A k \in i..(j - 1) : SubSeq(s, k, k) # "\n"
    ELSE 0

\* the index of the last "\n" of s before index i, or 0
LastNewlineBefore(s, i) ==
    IF \E j \in 1..(i - 1) : SubSeq(s, j, j) = "\n"
    THEN CHOOSE j \in 1..(i - 1) :
             /\ SubSeq(s, j, j) = "\n"
             /\ \A k \in (j + 1)..(i - 1) : SubSeq(s, k, k) # "\n"
    ELSE 0

\* a "\n" of s that is not its last character, the one nearest to the
\* middle of s that is found first, or 0: the lines of s are the lines up to
\* it followed by the lines after it
MiddleNewline(s) ==
    IF FirstNewline(SubSeq(s, 1, Len(s) - 1), (Len(s) + 1) \div 2) # 0
    THEN FirstNewline(SubSeq(s, 1, Len(s) - 1), (Len(s) + 1) \div 2)
    ELSE LastNewlineBefore(s, (Len(s) + 1) \div 2)

\* s.splitlines(): the lines without their terminators, no empty last line
RECURSIVE SplitLines(_)
SplitAt(s, i) ==
    IF i = 0 THEN <<IF EndsWith(s, "\n") THEN SubSeq(s, 1, Len(s) - 1) ELSE s>>
    ELSE SplitLines(SubSeq(s, 1, i)) \o SplitLines(SubSeq(s, i + 1, Len(s)))

SplitLines(s) ==
    IF Len(s) = 0 THEN <<>>
    ELSE SplitAt(s, MiddleNewline(s))

\* "\n".join(lines)
RECURSIVE JoinLines(_)
JoinLines(lines) ==
    IF Len(lines) = 0 THEN ""
    ELSE IF Len(lines) = 1 THEN lines[1]
    ELSE JoinLines(SubSeq(lines, 1, Len(lines) \div 2)) \o "\n"
             \o JoinLines(SubSeq(lines, Len(lines) \div 2 + 1, Len(lines)))

Max(x, y) == IF x >= y THEN x ELSE y
Min(x, y) == IF x <= y THEN x ELSE y

\* the length of the common run of a from i and b from j
RECURSIVE Run(_, _, _, _, _, _)
Run(a, b, i, j, ahi, bhi) ==
    IF i < ahi /\ j < bhi /\ a[i + 1] = b[j + 1]
    THEN 1 + Run(a, b, i + 1, j + 1, ahi, bhi)
    ELSE 0

\* SequenceMatcher.find_longest_match (no junk): the longest matching block
\* of a[alo:ahi] and b[blo:bhi]; of the longest ones, the one starting
\* earliest in a, and of those the one starting earliest in b
MatchStarts(a, b, alo, ahi, blo, bhi) ==
    { c \in (alo..(ahi - 1)) \X (blo..(bhi - 1)) : Run(a, b, c[1], c[2], ahi, bhi) > 0 }

Better(rc, c, rd, d) ==
    \/ rc > rd
    \/ rc = rd /\ c[1] < d[1]
    \/ rc = rd /\ c[1] = d[1] /\ c[2] <= d[2]

BestStart(a, b, ahi, bhi, cands) ==
    CHOOSE c \in cands :
        \A d \in cands :
            Better(Run(a, b, c[1], c[2], ahi, bhi), c, Run(a, b, d[1], d[2], ahi, bhi), d)

BlockAt(a, b, ahi, bhi, c) ==
    [i |-> c[1], j |-> c[2], k |-> Run(a, b, c[1], c[2], ahi, bhi)]

LongestOf(a, b, alo, ahi, blo, bhi, cands) ==
    IF cands = {} THEN [i |-> alo, j |-> blo, k |-> 0]
    ELSE BlockAt(a, b, ahi, bhi, BestStart(a, b, ahi, bhi, cands))

FindLongestMatch(a, b, alo, ahi, blo, bhi) ==
    LongestOf(a, b, alo, ahi, blo, bhi, MatchStarts(a, b, alo, ahi, blo, bhi))

\* SequenceMatcher.get_matching_blocks, before the sentinel: the longest
\* match m, then the matches to its left and to its right
RECURSIVE MatchingBlocks(_, _, _, _, _, _)
AroundMatch(a, b, alo, ahi, blo, bhi, m) ==
    IF m.k = 0 THEN <<>>
    ELSE (IF alo < m.i /\ blo < m.j
          THEN MatchingBlocks(a, b, alo, m.i, blo, m.j) ELSE <<>>)
         \o <<m>>
         \o (IF m.i + m.k < ahi /\ m.j + m.k < bhi
             THEN MatchingBlocks(a, b, m.i + m.k, ahi, m.j + m.k, bhi) ELSE <<>>)

MatchingBlocks(a, b, alo, ahi, blo, bhi) ==
    AroundMatch(a, b, alo, ahi, blo, bhi, FindLongestMatch(a, b, alo, ahi, blo, bhi))

\* adjacent blocks are collapsed into one
RECURSIVE MergeAdjacent(_)
MergeAdjacent(blocks) ==
    IF Len(blocks) < 2 THEN blocks
    ELSE IF /\ blocks[1].i + blocks[1].k = blocks[2].i
            /\ blocks[1].j + blocks[1].k = blocks[2].j
         THEN MergeAdjacent(<<[i |-> blocks[1].i, j |-> blocks[1].j,
                               k |-> blocks[1].k + blocks[2].k]>>
                            \o SubSeq(blocks, 3, Len(blocks)))
         ELSE <<blocks[1]>> \o MergeAdjacent(Tail(blocks))

\* SequenceMatcher.get_opcodes over the blocks and the sentinel block
OpTag(blk, i, j) ==
    IF i < blk.i /\ j < blk.j THEN "replace"
    ELSE IF i < blk.i THEN "delete"
    ELSE IF j < blk.j THEN "insert"
    ELSE ""

OpsOfBlock(blk, i, j, tag) ==
    (IF tag # ""
     THEN <<[tag |-> tag, i1 |-> i, i2 |-> blk.i, j1 |-> j, j2 |-> blk.j]>>
     ELSE <<>>)
    \o (IF blk.k > 0
        THEN <<[tag |-> "equal", i1 |-> blk.i, i2 |-> blk.i + blk.k,
                j1 |-> blk.j, j2 |-> blk.j + blk.k]>>
        ELSE <<>>)

RECURSIVE Opcodes(_, _, _, _)
Opcodes(blocks, n, i, j) ==
    IF n > Len(blocks) THEN <<>>
    ELSE OpsOfBlock(blocks[n], i, j, OpTag(blocks[n], i, j))
         \o Opcodes(blocks, n + 1, blocks[n].i + blocks[n].k, blocks[n].j + blocks[n].k)

\* the number of context lines of unified_diff (its default n)
ContextLines == 3

\* SequenceMatcher.get_grouped_opcodes(ContextLines) for sequences short
\* enough to give a single group (no run of more than 2 * ContextLines equal
\* lines between two changes): a leading and a trailing equal run are cut to
\* ContextLines lines; a group of one equal opcode is dropped
CodesOrEqual(codes) ==
    IF codes = <<>>
    THEN <<[tag |-> "equal", i1 |-> 0, i2 |-> 1, j1 |-> 0, j2 |-> 1]>>
    ELSE codes

TrimLead(codes) ==
    IF codes[1].tag = "equal"
    THEN [codes EXCEPT ![1].i1 = Max(codes[1].i1, codes[1].i2 - ContextLines),
                       ![1].j1 = Max(codes[1].j1, codes[1].j2 - ContextLines)]
    ELSE codes

TrimTrail(codes, z) ==
    IF codes[z].tag = "equal"
    THEN [codes EXCEPT ![z].i2 = Min(codes[z].i2, codes[z].i1 + ContextLines),
                       ![z].j2 = Min(codes[z].j2, codes[z].j1 + ContextLines)]
    ELSE codes

DropEqualGroup(group) ==
    IF Len(group) = 1 /\ group[1].tag = "equal" THEN <<>> ELSE group

AllBlocks(a, b) ==
    MergeAdjacent(MatchingBlocks(a, b, 0, Len(a), 0, Len(b)))
        \o <<[i |-> Len(a), j |-> Len(b), k |-> 0]>>

TrimBoth(codes) == TrimTrail(TrimLead(codes), Len(codes))

GroupedOpcodes(a, b) ==
    DropEqualGroup(TrimBoth(CodesOrEqual(Opcodes(AllBlocks(a, b), 1, 0, 0))))

\* difflib._format_range_unified(start, stop)
FormatRange(start, stop) ==
    IF stop - start = 1 THEN ToString(start + 1)
    ELSE IF stop - start = 0 THEN ToString(start) \o "," \o ToString(0)
    ELSE ToString(start + 1) \o "," \o ToString(stop - start)

\* the lines of seq[lo:hi], each behind the prefix
Prefixed(prefix, seq, lo, hi) ==
    [k \in 1..(hi - lo) |-> prefix \o seq[lo + k]]

LinesOfOp(a, b, op) ==
    IF op.tag = "equal" THEN Prefixed(" ", a, op.i1, op.i2)
    ELSE (IF op.tag \in { "replace", "delete" }
          THEN Prefixed("-", a, op.i1, op.i2) ELSE <<>>)
         \o (IF op.tag \in { "replace", "insert" }
             THEN Prefixed("+", b, op.j1, op.j2) ELSE <<>>)

RECURSIVE HunkLines(_, _, _, _)
HunkLines(a, b, group, n) ==
    IF n > Len(group) THEN <<>>
    ELSE LinesOfOp(a, b, group[n]) \o HunkLines(a, b, group, n + 1)

\* list(difflib.unified_diff(a, b, fromfile, tofile, lineterm=""))
UnifiedDiffAlwaysHeader(a, b, fromfile, tofile) ==
    <<"--- " \o fromfile, "+++ " \o tofile>>

DiffOfGroup(a, b, fromfile, tofile, group) ==
    IF group = <<>> THEN <<>>
    ELSE <<"--- " \o fromfile,
           "+++ " \o tofile,
           "@@ -" \o FormatRange(group[1].i1, group[Len(group)].i2)
               \o " +" \o FormatRange(group[1].j1, group[Len(group)].j2) \o " @@">>
         \o HunkLines(a, b, group, 1)

UnifiedDiff(a, b, fromfile, tofile) ==
    DiffOfGroup(a, b, fromfile, tofile, GroupedOpcodes(a, b))

---------------------------------------------------------------------------
(* The change tracker of DocumentationAgent *)

WorkflowFile == ".github/workflows/frontend-ci.yml"
DockerfilePath == "Dockerfile"
Paths == { WorkflowFile, DockerfilePath }

\* the texts a file may hold
FileContents(path) ==
    IF path = WorkflowFile
    THEN { "", "name: CI", "name: CI\non: push" }
    ELSE { "FROM node:18-alpine\n" }

\* a file on disk, and a path that does not exist
File(content) == [exists |-> TRUE, content |-> content]
NoFile == [exists |-> FALSE, content |-> ""]

\* os.path.exists(path)
Exists(path) == path \in DOMAIN disk /\ disk[path].exists

\* a Python dict with string keys; d[key] = value
EmptyDict == [k \in {} |-> ""]
Put(d, key, value) == [k \in DOMAIN d \cup { key } |-> IF k = key THEN value ELSE d[k]]

\* the `details` argument: None, or a dict
NoDetails == [given |-> FALSE, d |-> EmptyDict]
Details(d) == [given |-> TRUE, d |-> d]

\* details or {}
DetailsOrEmpty(details) == IF details.given THEN details.d ELSE EmptyDict

\* lines 98-111: the diff of a recorded change; None without a snapshot or
\* without the file
DiffAgainstEmpty(file_path) ==
    IF file_path \in DOMAIN file_snapshots /\ Exists(file_path)
    THEN JStr(JoinLines(UnifiedDiff(<<>>,
                                    SplitLines(disk[file_path].content),
                                    "previous/" \o file_path,
                                    "current/" \o file_path)))
    ELSE JNull

ChangeDiffWithoutLookingAtDisk(file_path) ==
    IF file_path \in DOMAIN file_snapshots
    THEN JStr(JoinLines(UnifiedDiff(SplitLines(file_snapshots[file_path]),
                                    SplitLines(disk[file_path].content),
                                    "previous/" \o file_path,
                                    "current/" \o file_path)))
    ELSE JNull

\* (the two lists of lines are bound once, as the code's two local variables)
ChangeDiff(file_path) ==
    IF file_path \in DOMAIN file_snapshots /\ Exists(file_path)
    THEN CHOOSE diff \in
             { JStr(JoinLines(UnifiedDiff(old_lines, current_lines,
                                          "previous/" \o file_path,
                                          "current/" \o file_path))) :
                 old_lines \in { SplitLines(file_snapshots[file_path]) },
                 current_lines \in { SplitLines(disk[file_path].content) } } : TRUE
    ELSE JNull

\* lines 113-114: the snapshots after a recorded change
SnapshotsKept(file_path) == file_snapshots

SnapshotsStoredWithoutBaseline(file_path) ==
    IF Exists(file_path)
    THEN Put(file_snapshots, file_path, disk[file_path].content)
    ELSE file_snapshots

SnapshotsAfterChange(file_path) ==
    IF file_path \in DOMAIN file_snapshots /\ Exists(file_path)
    THEN Put(file_snapshots, file_path, disk[file_path].content)
    ELSE file_snapshots

\* ChangeRecord
ChangeRecord(agent_name, timestamp, file_path, change_description, diff, details) ==
    [agent_name |-> agent_name, timestamp |-> timestamp, file_path |-> file_path,
     change_description |-> change_description, diff |-> diff, details |-> details]

\* the operation made last and the one made before it
Op(op, path) == [op |-> op, path |-> path]

\* what a path holds on disk: its text, or null when it does not exist
OnDisk(path) == IF Exists(path) THEN JStr(disk[path].content) ELSE JNull

\* `after_seen` is what the path of the operation before held when that
\* operation read it (record_file_snapshot and record_change leave the disk
\* alone, so it is what the path still holds when the next one begins)
NoOp == [op |-> "none", path |-> "", after |-> Op("none", ""), after_seen |-> JNull]

Then(op, path) ==
    [op |-> op, path |-> path, after |-> Op(last_op.op, last_op.path),
     after_seen |-> IF last_op.op \in { "record_file_snapshot", "record_change" }
                    THEN OnDisk(last_op.path)
                    ELSE JNull]

\* DocumentationAgent.__init__
TrackerInit ==
    /\ file_snapshots = EmptyDict
    /\ changes = <<>>
    /\ clock = 0
    /\ disk \in { f \in [Paths -> [exists : BOOLEAN, content : UNION { FileContents(p) : p \in Paths } \cup { "" }]] :
                    \A p \in Paths : f[p] = NoFile \/ (f[p].exists /\ f[p].content \in FileContents(p)) }
    /\ last_op = NoOp

\* DocumentationAgent.record_file_snapshot(file_path)
record_file_snapshot_unguarded(file_path) ==
    /\ file_snapshots' = Put(file_snapshots, file_path, disk[file_path].content)
    /\ last_op' = Then("record_file_snapshot", file_path)
    /\ UNCHANGED <<changes, clock, disk>>

record_file_snapshot(file_path) ==
    /\ file_snapshots' =
           IF Exists(file_path)
           THEN Put(file_snapshots, file_path, disk[file_path].content)
           ELSE file_snapshots
    /\ last_op' = Then("record_file_snapshot", file_path)
    /\ UNCHANGED <<changes, clock, disk>>

\* DocumentationAgent.record_change(agent_name, file_path, change_description, details)
record_change_at_the_front(agent_name, file_path, change_description, details) ==
    /\ changes' = <<ChangeRecord(agent_name, clock, file_path, change_description,
                                 ChangeDiff(file_path), DetailsOrEmpty(details))>>
                  \o changes
    /\ file_snapshots' = SnapshotsAfterChange(file_path)
    /\ clock' = clock + 1
    /\ last_op' = Then("record_change", file_path)
    /\ UNCHANGED disk

\* DocumentationAgent.record_change(agent_name, file_path, change_description, details)
record_change(agent_name, file_path, change_description, details) ==
    /\ changes' = Append(changes,
                         ChangeRecord(agent_name, clock, file_path, change_description,
                                      ChangeDiff(file_path), DetailsOrEmpty(details)))
    /\ file_snapshots' = SnapshotsAfterChange(file_path)
    /\ clock' = clock + 1
    /\ last_op' = Then("record_change", file_path)
    /\ UNCHANGED disk

\* an agent, or anyone else, writes the file in full
write_file(path, content) ==
    /\ disk' = [disk EXCEPT ![path] = File(content)]
    /\ last_op' = Then("write_file", path)
    /\ UNCHANGED <<file_snapshots, changes, clock>>

\* the file is removed
remove_file(path) ==
    /\ Exists(path)
    /\ disk' = [disk EXCEPT ![path] = NoFile]
    /\ last_op' = Then("remove_file", path)
    /\ UNCHANGED <<file_snapshots, changes, clock>>

---------------------------------------------------------------------------
(* DocumentationAgent.generate_documentation *)

\* datetime.now().isoformat() and the two strftime formats, for the model's
\* clock (one tick is one second)
TimestampText(t) == "2025-01-01T00:00:0" \o ToString(t)
GeneratedOnText(t) == "2025-01-01 00:00:0" \o ToString(t)
DocFilename(t) == "changes-20250101-00000" \o ToString(t) \o ".md"

\* lines 135-138
NoChangesText == "# DevGenius Change Documentation\n\nNo changes have been recorded yet."

\* lines 141-145: the keys of changes_by_agent, in order of first appearance
AgentsByLastChange(chs) ==
    LET names == { chs[i].agent_name : i \in 1..Len(chs) }
        last_change == [name \in names |->
                           CHOOSE i \in 1..Len(chs) :
                               /\ chs[i].agent_name = name
                               /\ \A j \in (i + 1)..Len(chs) : chs[j].agent_name # name]
    IN  CHOOSE order \in [1..Cardinality(names) -> names] :
            \A k, l \in 1..Cardinality(names) :
                k < l => last_change[order[k]] < last_change[order[l]]

RECURSIVE AgentsInOrder(_)
AgentsInOrder(chs) ==
    IF chs = <<>> THEN <<>>
    ELSE LET before == AgentsInOrder(SubSeq(chs, 1, Len(chs) - 1))
             name == chs[Len(chs)].agent_name
         IN  IF \E i \in 1..Len(before) : before[i] = name
             THEN before
             ELSE Append(before, name)

\* changes_by_agent[agent_name]
ChangesOf(chs, agent_name) ==
    SelectSeq(chs, LAMBDA c : c.agent_name = agent_name)

\* ', '.join(names)
RECURSIVE JoinComma(_)
JoinComma(names) ==
    IF names = <<>> THEN ""
    ELSE IF Len(names) = 1 THEN names[1]
    ELSE names[1] \o ", " \o JoinComma(Tail(names))

\* repr(s) of a str without backslashes or control characters
ReprOfStr(s) ==
    IF Contains(s, "'") /\ ~Contains(s, "\"")
    THEN "\"" \o s \o "\""
    ELSE "'" \o s \o "'"

\* repr(v), and the "'key': value" items of a dict's repr (a dict of more
\* than one key is written in the order CHOOSE takes the keys)
RECURSIVE PyRepr(_)
RECURSIVE ReprItems(_)
PyRepr(v) ==
    IF v.t = "str" THEN ReprOfStr(v.s)
    ELSE IF v.t = "null" THEN "None"
    ELSE IF v.t = "bool" THEN (IF v.b THEN "True" ELSE "False")
    ELSE IF v.t = "num" THEN (IF "n" \in DOMAIN v THEN ToString(v.n) ELSE "0")
    ELSE IF v.t = "list" THEN "[" \o JoinComma([i \in 1..Len(v.items) |-> PyRepr(v.items[i])]) \o "]"
    ELSE IF "d" \in DOMAIN v THEN "{" \o ReprItems(v.d) \o "}"
    ELSE "{}"

ReprItems(d) ==
    IF DOMAIN d = {} THEN ""
    ELSE LET key == CHOOSE k \in DOMAIN d : TRUE
             rest == [k \in DOMAIN d \ { key } |-> d[k]]
         IN  "'" \o key \o "': " \o PyRepr(d[key])
                 \o (IF DOMAIN rest = {} THEN "" ELSE ", " \o ReprItems(rest))

\* str(v), as an f-string writes a value
PyStr(v) == IF v.t = "str" THEN v.s ELSE PyRepr(v)

\* the "  - key: value" lines of a details dict (a dict of more than one key
\* is written in the order CHOOSE takes the keys)
RECURSIVE DetailsLines(_)
DetailsLines(d) ==
    IF DOMAIN d = {} THEN ""
    ELSE LET key == CHOOSE k \in DOMAIN d : TRUE
         IN  "  - " \o key \o ": " \o PyStr(d[key]) \o "\n"
                 \o DetailsLines([k \in DOMAIN d \ { key } |-> d[k]])

\* `if change.diff:` is false for None and for ""
HasDiff(change) == change.diff.t = "str" /\ change.diff.s # ""

\* change.diff[:500]
Truncated(text) == IF Len(text) > 500 THEN SubSeq(text, 1, 500) ELSE text

\* lines 193-203 (the code fence is written ~~~)
PromptOfChange(idx, change) ==
    "### Change " \o ToString(idx) \o ": " \o change.file_path \o "\n"
    \o "- Timestamp: " \o TimestampText(change.timestamp) \o "\n"
    \o "- Description: " \o change.change_description \o "\n"
    \o (IF DOMAIN change.details # {}
        THEN "- Details:\n" \o DetailsLines(change.details) ELSE "")
    \o (IF HasDiff(change)
        THEN "- Diff (truncated if long):\n~~~diff\n" \o Truncated(change.diff.s)
                 \o "...\n~~~\n\n"
        ELSE "")

RECURSIVE PromptOfChanges(_, _)
PromptOfChanges(chs, idx) ==
    IF idx > Len(chs) THEN ""
    ELSE PromptOfChange(idx, chs[idx]) \o PromptOfChanges(chs, idx + 1)

RECURSIVE PromptOfAgents(_, _)
PromptOfAgents(chs, agents) ==
    IF agents = <<>> THEN ""
    ELSE "## Changes by " \o Head(agents) \o "\n\n"
         \o PromptOfChanges(ChangesOf(chs, Head(agents)), 1)
         \o PromptOfAgents(chs, Tail(agents))

PromptTail ==
    "\n                Please create comprehensive documentation from these changes with the following sections:\n                1. Executive Summary - Brief overview of all changes\n                2. Detailed Changes - Organized by agent, with technical details\n                3. Impact Analysis - How these changes affect the system\n                4. Recommendations - Suggestions for review or future improvements\n\n                Format the documentation in Markdown with proper headings, code blocks, and formatting.\n            "

\* _prepare_documentation_prompt
PrepareDocumentationPrompt(chs) ==
    "I need documentation for the following changes made by AI agents to our codebase:\n\n"
    \o PromptOfAgents(chs, AgentsInOrder(chs))
    \o PromptTail

\* lines 233-245
SimpleDocOfChange(idx, change) ==
    "### " \o ToString(idx) \o ". " \o change.file_path \o "\n\n"
    \o "- **Timestamp**: " \o TimestampText(change.timestamp) \o "\n"
    \o "- **Description**: " \o change.change_description \o "\n"
    \o (IF DOMAIN change.details # {}
        THEN "- **Details**:\n" \o DetailsLines(change.details) ELSE "")
    \o (IF HasDiff(change)
        THEN "\n~~~diff\n" \o change.diff.s \o "\n~~~\n\n"
        ELSE "")
    \o "\n"

RECURSIVE SimpleDocOfChanges(_, _)
SimpleDocOfChanges(chs, idx) ==
    IF idx > Len(chs) THEN ""
    ELSE SimpleDocOfChange(idx, chs[idx]) \o SimpleDocOfChanges(chs, idx + 1)

RECURSIVE SimpleDocOfAgents(_, _)
SimpleDocOfAgents(chs, agents) ==
    IF agents = <<>> THEN ""
    ELSE "## Changes by " \o Head(agents) \o "\n\n"
         \o SimpleDocOfChanges(ChangesOf(chs, Head(agents)), 1)
         \o SimpleDocOfAgents(chs, Tail(agents))

\* _generate_simple_documentation
GenerateSimpleDocumentation(chs, now) ==
    "# DevGenius Change Documentation\n\n"
    \o "Generated on: " \o GeneratedOnText(now) \o "\n\n"
    \o "## Summary of Changes\n\n"
    \o "Total changes: " \o ToString(Len(chs)) \o "\n"
    \o "Agents involved: " \o JoinComma(AgentsInOrder(chs)) \o "\n\n"
    \o SimpleDocOfAgents(chs, AgentsInOrder(chs))

\* lines 151-158
DocSystemPrompt ==
    "You are an expert technical documentation writer. Your task is to create clear, comprehensive documentation of changes made to a codebase by AI agents."

DocMessages(prompt) ==
    <<Msg([role |-> "system", content |-> DocSystemPrompt]),
      Msg([role |-> "user", content |-> prompt])>>

\* line 166: response.prediction.get("content", "")
PredictionContent(prediction) ==
    IF "content" \in DOMAIN prediction THEN prediction.content ELSE JStr("")

\* what generate_documentation left behind: the text it returned and the
\* branch that produced it ("none" before the first call)
NoDocumentation == [via |-> "none", text |-> ""]
DocReturned(via, text) == [via |-> via, text |-> text]

\* lines 168-177 and 179-181, once the client call has returned or raised:
\* the text returned and the files of the output directory afterwards.
\* open(doc_path, "w") creates or empties the file before f.write() gets a
\* value that is no str and raises TypeError.
SaveAndReturn(outcome, open_ok) ==
    LET content == PredictionContent(outcome.value.prediction)
        fallback == DocReturned("fallback", GenerateSimpleDocumentation(changes, clock))
    IN  IF outcome.raised # "none" THEN [doc |-> fallback, files |-> doc_files]
        ELSE IF ~open_ok THEN [doc |-> fallback, files |-> doc_files]
        ELSE IF content.t # "str"
             THEN [doc |-> fallback, files |-> Put(doc_files, DocFilename(clock), "")]
        ELSE [doc |-> DocReturned("llm", content.s),
              files |-> Put(doc_files, DocFilename(clock), content.s)]

\* lines 140-181: the changes are grouped, the prompt is sent and the
\* answer is saved; open_ok tells whether the output file can be opened for
\* writing, resp is what the transport answers
RequestDocumentation(open_ok, resp) ==
    /\ calls' = calls + 1
    /\ args' = [has_messages |-> TRUE]
    /\ LET messages == EnhanceMessages(DocMessages(PrepareDocumentationPrompt(changes)))
           endpoint == RequestURL(api_endpoint)
       IN  /\ caller_messages' = messages
           /\ sent' = [url |-> endpoint, model |-> ModelId, messages |-> messages]
           /\ resp \in Post(endpoint)
           /\ upstream' = resp
           /\ last' = Outcome("text", resp)
           /\ documentation' = SaveAndReturn(Outcome("text", resp), open_ok).doc
           /\ doc_files' = SaveAndReturn(Outcome("text", resp), open_ok).files
    /\ UNCHANGED <<configured_endpoint, api_endpoint, tracker_vars>>

\* DocumentationAgent.generate_documentation()
generate_documentation_unguarded(open_ok, resp) == RequestDocumentation(open_ok, resp)

generate_documentation(open_ok, resp) ==
    IF changes = <<>>
    THEN /\ documentation' = DocReturned("literal", NoChangesText)
         /\ UNCHANGED <<client_vars, tracker_vars, doc_files>>
    ELSE RequestDocumentation(open_ok, resp)

---------------------------------------------------------------------------
(* More Python string methods *)

UpperLetters == "ABCDEFGHIJKLMNOPQRSTUVWXYZ"
LowerLetters == "abcdefghijklmnopqrstuvwxyz"

LowerChar(c) ==
    IF \E i \in 1..Len(UpperLetters) : SubSeq(UpperLetters, i, i) = c
    THEN LET i == CHOOSE k \in 1..Len(UpperLetters) : SubSeq(UpperLetters, k, k) = c
         IN  SubSeq(LowerLetters, i, i)
    ELSE c

\* s.lower()
RECURSIVE Lower(_)
Lower(s) ==
    IF Len(s) = 0 THEN ""
    ELSE LowerChar(SubSeq(s, 1, 1)) \o Lower(SubSeq(s, 2, Len(s)))

\* s.find(c) and s.rfind(c) for a single character c: the index from 0 of
\* its first and of its last occurrence, -1 when there is none
Find(s, c) ==
    IF \E i \in 1..Len(s) : SubSeq(s, i, i) = c
    THEN (CHOOSE i \in 1..Len(s) :
             /\ SubSeq(s, i, i) = c
             /\ \A j \in 1..(i - 1) : SubSeq(s, j, j) # c) - 1
    ELSE -1

RFind(s, c) ==
    IF \E i \in 1..Len(s) : SubSeq(s, i, i) = c
    THEN (CHOOSE i \in 1..Len(s) :
             /\ SubSeq(s, i, i) = c
             /\ \A j \in (i + 1)..Len(s) : SubSeq(s, j, j) # c) - 1
    ELSE -1

\* "\n".join(s.split("\n")[:n]): s up to its n-th newline, all of s when it
\* has fewer
RECURSIVE FirstLines(_, _)
FirstLines(s, n) ==
    LET i == FirstNewline(s, 1) IN
    IF i = 0 THEN s
    ELSE IF n = 1 THEN SubSeq(s, 1, i - 1)
    ELSE SubSeq(s, 1, i) \o FirstLines(SubSeq(s, i + 1, Len(s)), n - 1)

---------------------------------------------------------------------------
(* TechStackAgent (agents/tech_stack_agent.py) *)

\* frontend/package.json: missing, not valid JSON, or a mapping that may
\* have "dependencies" and "devDependencies"
Package(state, dependencies, devDependencies) ==
    [state |-> state, dependencies |-> dependencies, devDependencies |-> devDependencies]
NoPackage == Package("missing", JAbsent, JAbsent)
InvalidPackage == Package("invalid", JAbsent, JAbsent)
VuePackage ==
    Package("valid", JDict([vue |-> JStr("^3.4.0")]), JDict([vite |-> JStr("^5.0.0")]))

\* the frontend directory: package.json, the configuration files and the
\* code samples the globs find (name -> content), and whether those files
\* can be opened for reading
Frontend(package, config_files, code_samples, readable) ==
    [package |-> package, config_files |-> config_files,
     code_samples |-> code_samples, readable |-> readable]

Frontends ==
    { Frontend(NoPackage, EmptyDict, EmptyDict, TRUE),
      Frontend(InvalidPackage, EmptyDict, EmptyDict, TRUE),
      Frontend(VuePackage, Put(EmptyDict, "vite.config.ts", "export default {}\n"),
               Put(EmptyDict, "App.vue", "<template>\n</template>"), TRUE),
      Frontend(VuePackage, Put(EmptyDict, "vite.config.ts", "export default {}\n"),
               EmptyDict, FALSE) }

\* lines 47-61 and 68-121: the exception raised while the files are
\* collected, or "none"; json.load and open are not guarded
CollectExc(frontend) ==
    IF frontend.package.state = "invalid" THEN "JSONDecodeError"
    ELSE IF ~frontend.readable
            /\ (DOMAIN frontend.config_files # {} \/ DOMAIN frontend.code_samples # {})
         THEN "PermissionError"
    ELSE "none"

\* json.dumps(d, indent=2) of a flat dict of strings
RECURSIVE DumpItems(_)
DumpItems(d) ==
    LET key == CHOOSE k \in DOMAIN d : TRUE
        rest == [k \in DOMAIN d \ { key } |-> d[k]]
    IN  "  \"" \o key \o "\": \"" \o d[key].s \o "\""
            \o (IF DOMAIN rest = {} THEN "" ELSE ",\n" \o DumpItems(rest))

JsonDumps(v) ==
    IF DOMAIN v.d = {} THEN "{}" ELSE "{\n" \o DumpItems(v.d) \o "\n}"

\* the names of a dict of files, in the order CHOOSE takes them
RECURSIVE FileNames(_)
FileNames(files) ==
    IF DOMAIN files = {} THEN <<>>
    ELSE LET name == CHOOSE k \in DOMAIN files : TRUE
         IN  <<name>> \o FileNames([k \in DOMAIN files \ { name } |-> files[k]])

\* lines 183-185 and 191-193: the first `most` files, twenty lines of each
RECURSIVE TruncatedFiles(_, _, _)
TruncatedFiles(files, names, most) ==
    IF names = <<>> \/ most = 0 THEN ""
    ELSE Head(names) \o " (truncated):\n"
         \o FirstLines(files[Head(names)], 20) \o "\n...\n\n"
         \o TruncatedFiles(files, Tail(names), most - 1)

\* `if package_json:` is false for None and for {}
PackageSummary(package) ==
    IF package.state # "valid"
       \/ (package.dependencies.t = "absent" /\ package.devDependencies.t = "absent")
    THEN ""
    ELSE "PACKAGE.JSON DEPENDENCIES:\n"
         \o (IF package.dependencies.t = "absent" THEN ""
             ELSE JsonDumps(package.dependencies) \o "\n\n")
         \o (IF package.devDependencies.t = "absent" THEN ""
             ELSE "DEV DEPENDENCIES:\n" \o JsonDumps(package.devDependencies) \o "\n\n")

AnalysisPromptTail ==
    "\n                Based on these files, please identify:\n                1. Main frontend framework (React, Vue, Angular, Svelte, etc.)\n                2. Build tool (Vite, Webpack, Next.js, Astro, etc.)\n                3. CSS framework or approach (Tailwind, Bootstrap, SCSS, styled-components, etc.)\n                4. TypeScript usage\n                5. State management libraries\n                6. Additional significant libraries/frameworks\n\n                Format your response as a JSON object with these keys.\n            "

\* _prepare_analysis_prompt
PrepareAnalysisPrompt(frontend) ==
    "Please analyze these frontend project files to determine the tech stack:\n\n"
    \o PackageSummary(frontend.package)
    \o "CONFIG FILES PRESENT: " \o JoinComma(FileNames(frontend.config_files)) \o "\n\n"
    \o TruncatedFiles(frontend.config_files, FileNames(frontend.config_files), 3)
    \o "CODE FILES PRESENT: " \o JoinComma(FileNames(frontend.code_samples)) \o "\n\n"
    \o TruncatedFiles(frontend.code_samples, FileNames(frontend.code_samples), 2)
    \o AnalysisPromptTail

\* lines 135-142
AnalysisSystemPrompt ==
    "You are an AI tech stack analyzer specialized in frontend technologies. Analyze the provided code and configuration files to identify the tech stack."

AnalysisMessages(frontend) ==
    <<Msg([role |-> "system", content |-> AnalysisSystemPrompt]),
      Msg([role |-> "user", content |-> PrepareAnalysisPrompt(frontend)])>>

\* the JSON objects the upstream service may write into its answer, and
\* what json.loads makes of them
VueWebpackJson ==
    "{\"framework\": \"Vue\", \"build_tool\": \"Webpack\", \"css_framework\": \"Bootstrap\", \"typescript\": false}"
NextJson == "{\"framework\": \"React\", \"build_tool\": \"Next.js\", \"typescript\": true}"
NullFrameworkJson == "{\"framework\": null, \"build_tool\": \"Vite\"}"
NumericNodeJson == "{\"framework\": \"React\", \"build_tool\": \"Vite\", \"node_version\": 20}"

JsonObjects ==
    Put(Put(Put(Put(EmptyDict,
        VueWebpackJson, [framework |-> JStr("Vue"), build_tool |-> JStr("Webpack"),
                         css_framework |-> JStr("Bootstrap"), typescript |-> JBool(FALSE)]),
        NextJson, [framework |-> JStr("React"), build_tool |-> JStr("Next.js"),
                   typescript |-> JBool(TRUE)]),
        NullFrameworkJson, [framework |-> JNull, build_tool |-> JStr("Vite")]),
        NumericNodeJson, [framework |-> JStr("React"), build_tool |-> JStr("Vite"),
                          node_version |-> JInt(20)])

\* json.loads(text): the dict, or JSONDecodeError for a text that is none of
\* the objects above
JsonLoads(text) ==
    IF text \in DOMAIN JsonObjects
    THEN [exc |-> "none", value |-> JsonObjects[text]]
    ELSE [exc |-> "JSONDecodeError", value |-> EmptyDict]

\* lines 154-159 and 254-259: the dict of the two `except Exception` handlers
TechStackError(e) ==
    [error |-> JStr(e), framework |-> JStr("unknown"), build_tool |-> JStr("unknown"),
     css_framework |-> JStr("unknown")]

\* lines 220-251: the extraction from a text without a JSON object
KeywordTechStack(text) ==
    LET low == Lower(text) IN
    [framework |-> JStr(IF Contains(low, "react") THEN "React"
                        ELSE IF Contains(low, "vue") THEN "Vue"
                        ELSE IF Contains(low, "svelte") THEN "Svelte"
                        ELSE "unknown"),
     build_tool |-> JStr(IF Contains(low, "vite") THEN "Vite"
                         ELSE IF Contains(low, "webpack") THEN "Webpack"
                         ELSE IF Contains(low, "next.js") \/ Contains(low, "nextjs")
                              THEN "Next.js"
                         ELSE "unknown"),
     css_framework |-> JStr(IF Contains(low, "tailwind") THEN "Tailwind CSS"
                            ELSE IF Contains(low, "bootstrap") THEN "Bootstrap"
                            ELSE "unknown"),
     typescript |-> JBool(Contains(low, "typescript")),
     state_management |-> JStr("unknown"),
     additional_libraries |-> JList(<<>>)]

\* _extract_tech_stack(content): a content that is no str has no find()
ExtractTechStack(content) ==
    IF content.t # "str" THEN TechStackError("AttributeError")
    ELSE LET start_idx == Find(content.s, "{")
             end_idx == RFind(content.s, "}") + 1
             loaded == JsonLoads(SubSeq(content.s, start_idx + 1, end_idx))
         IN  IF start_idx >= 0 /\ end_idx > start_idx
             THEN IF loaded.exc = "none" THEN loaded.value
                  ELSE TechStackError(loaded.exc)
             ELSE KeywordTechStack(content.s)

\* lines 144-159: what _analyze_tech_stack makes of the client's outcome
AnalyzeTechStack(outcome) ==
    IF outcome.raised # "none" THEN TechStackError(outcome.raised)
    ELSE ExtractTechStack(PredictionContent(outcome.value.prediction))

\* the contents the upstream service answers to the analysis request
TechReplyTexts ==
    { "",
      "This looks like React built with Vite, written in TypeScript.",
      "Here is the result: " \o VueWebpackJson,
      NextJson,
      NullFrameworkJson,
      NumericNodeJson,
      "{framework: Vue}" }

\* an answer with status 200 and one choice of the given content
Answer200(content) ==
    [net |-> "ok", status |-> 200,
     body |-> [json |-> "object",
               choices |-> JList(<<[t |-> "dict",
                                    message |-> [t |-> "dict", content |-> content]]>>),
               model |-> JAbsent, usage |-> JAbsent]]

\* a lost connection and an answer with status 500
ConnectionLost == [net |-> "ConnectionError", status |-> 0, body |-> NoBody]
Answer500 ==
    [net |-> "ok", status |-> 500,
     body |-> [json |-> "object", choices |-> JAbsent, model |-> JAbsent, usage |-> JAbsent]]

TechAnswers ==
    { ConnectionLost, Answer500, Answer200(JNull) }
        \cup { Answer200(JStr(x)) : x \in TechReplyTexts }

---------------------------------------------------------------------------
(* GitHubActionsAgent (agents/ci_cd/github_actions_agent.py) *)

\* `if v:` for a JSON value
Truthy(v) ==
    IF v.t = "bool" THEN v.b
    ELSE IF v.t = "str" THEN v.s # ""
    ELSE IF v.t = "list" THEN v.items # <<>>
    ELSE IF v.t = "num" THEN ("n" \in DOMAIN v => v.n # 0)
    ELSE IF v.t = "dict" THEN ("d" \in DOMAIN v /\ DOMAIN v.d # {})
    ELSE FALSE

\* the four fields the agents read off the tech stack, with their defaults
FrameworkOf(ts) == Get(ts, "framework", JStr("React"))
BuildToolOf(ts) == Get(ts, "build_tool", JStr("Vite"))
CssFrameworkOf(ts) == Get(ts, "css_framework", JStr("Tailwind CSS"))
UsesTypescript(ts) == Get(ts, "typescript", JBool(TRUE))

\* GitHubActionsConfig: the fields generate_pipeline reads
GitHubActionsConfig(workflow_name, python_version, run_tests, run_linting, build_frontend) ==
    [workflow_name |-> workflow_name, python_version |-> python_version,
     run_tests |-> run_tests, run_linting |-> run_linting,
     build_frontend |-> build_frontend]

\* lines 115-158 (emoji are written as their short names, here and below)
PipelineHeader(config) ==
    "name: "
    \o config.workflow_name
    \o "\n\non:\n    push:\n        branches: [ main ]\n    pull_request:\n        branches: [ main ]\n\npermissions:\n    contents: read\n    pull-requests: write\n\njobs:\n    frontend-ci:\n        runs-on: ubuntu-latest\n        \n        env:\n          GROQ_API_ENDPOINT: ${{ secrets.GROQ_API_ENDPOINT }}  # API endpoint for GROQ\n          GROQ_API_KEY: ${{ secrets.GROQ_API_KEY }}           # Authentication key\n          GITHUB_TOKEN: ${{ secrets.GH_TOKEN }}               # GitHub access token\n\n        steps:\n        - name: Checkout code\n          uses: actions/checkout@v3\n\n        - name: Set up Node.js 18.x\n          uses: actions/setup-node@v3\n          with:\n            node-version: 18.x\n            cache: 'npm'\n            cache-dependency-path: '**/package-lock.json'\n\n        - name: Install frontend dependencies\n          working-directory: ./frontend\n          run: npm ci\n\n        - name: Cache Node modules\n          uses: actions/cache@v3\n          with:\n            path: ~/.npm\n            key: ${{ runner.os }}-node-${{ hashFiles('**/package-lock.json') }}\n            restore-keys: |\n              ${{ runner.os }}-node-\n            "

\* lines 161-173
LintStepOfTypeScriptOnly(config, uses_typescript) ==
    IF ~config.run_linting THEN ""
    ELSE "\n                    - name: Lint TypeScript code\n                      working-directory: ./frontend\n                      run: npm run lint\n                "

LintStep(config, uses_typescript) ==
    IF ~config.run_linting THEN ""
    ELSE IF Truthy(uses_typescript)
    THEN "\n                    - name: Lint TypeScript code\n                      working-directory: ./frontend\n                      run: npm run lint\n                "
    ELSE "\n                    - name: Lint JavaScript code\n                      working-directory: ./frontend\n                      run: npm run lint\n                "

\* lines 177-187
TestCommand(framework) ==
    IF Lower(framework) = "react" THEN "npm test -- --passWithNoTests"
    ELSE IF Lower(framework) = "vue" THEN "npm run test:unit"
    ELSE IF Lower(framework) = "angular"
         THEN "ng test --watch=false --browsers=ChromeHeadless"
    ELSE IF Lower(framework) = "svelte" THEN "npm run test"
    ELSE "npm test"

\* lines 176-193
TestStep(config, framework) ==
    IF ~config.run_tests THEN ""
    ELSE "\n        - name: Run "
    \o framework
    \o " tests\n          working-directory: ./frontend\n          run: "
    \o TestCommand(framework)
    \o "\n        "

\* lines 197-209
BuildCommand(build_tool) ==
    IF Lower(build_tool) = "angular" THEN "ng build --prod" ELSE "npm run build"

\* lines 196-215
BuildStep(config, build_tool) ==
    IF ~config.build_frontend THEN ""
    ELSE "\n        - name: Build frontend with "
    \o build_tool
    \o "\n          working-directory: ./frontend\n          run: "
    \o BuildCommand(build_tool)
    \o "\n        "

\* lines 218-249
PythonSteps(config) ==
    "\n        - name: Set up Python "
    \o config.python_version
    \o "\n          uses: actions/setup-python@v4\n          with:\n            python-version: "
    \o config.python_version
    \o "\n\n        - name: Cache pip packages\n          uses: actions/cache@v3\n          with:\n            path: ~/.cache/pip\n            key: ${{ runner.os }}-pip-${{ hashFiles('**/requirements.txt') }}\n            restore-keys: |\n              ${{ runner.os }}-pip-\n\n        - name: Install Python dependencies\n          run: |\n            python -m pip install --upgrade pip\n            pip install -r requirements.txt\n\n        - name: Set up Docker Buildx\n          uses: docker/setup-buildx-action@v2\n\n        - name: Run DevOps AI Team\n          run: |\n            python main.py\n\n        - name: Build and start Docker Container\n          run: |\n            docker build -t devgenius-frontend:latest .\n            docker run -d -p 4173:4173 devgenius-frontend:latest\n            sleep 5  # Give container a moment to start\n        "

\* lines 252-270
ContainerTestStep(framework) ==
    "\n        - name: Test Docker Container\n          run: |\n            if docker ps | grep -q devgenius-frontend; then\n            echo \":mag: Testing Docker container endpoints...\"\n            \n            if curl -I http://localhost:4173/ | grep -q \"200 OK\"; then\n                echo \":white_check_mark: "
    \o framework
    \o " app home page test passed! :rocket:\"\n            else\n                echo \":x: "
    \o framework
    \o " app home page test failed :cry:\"\n                exit 1\n            fi\n            \n            echo \":tada: All Docker container tests passed successfully! :star2:\"\n            else\n            echo \":warning: Docker container not running, skipping tests :thinking:\"\n            exit 1\n            fi\n        "

\* GitHubActionsAgent.generate_pipeline(tech_stack): the text, or the
\* AttributeError of .lower() on a framework or build tool that is no str
GeneratePipeline(config, ts) ==
    IF config.run_tests /\ ~IsStr(FrameworkOf(ts))
    THEN [exc |-> "AttributeError", text |-> ""]
    ELSE IF config.build_frontend /\ ~IsStr(BuildToolOf(ts))
    THEN [exc |-> "AttributeError", text |-> ""]
    ELSE [exc |-> "none",
          text |-> PipelineHeader(config)
                   \o LintStep(config, UsesTypescript(ts))
                   \o TestStep(config, PyStr(FrameworkOf(ts)))
                   \o BuildStep(config, PyStr(BuildToolOf(ts)))
                   \o PythonSteps(config)
                   \o ContainerTestStep(PyStr(FrameworkOf(ts)))]

---------------------------------------------------------------------------
(* DockerfileAgent (agents/infrastructure/dockerfile_agent.py) *)

DockerfileConfig(base_image, build_command, serve_command, expose_port, copy_source, work_dir) ==
    [base_image |-> base_image, build_command |-> build_command,
     serve_command |-> serve_command, expose_port |-> expose_port,
     copy_source |-> copy_source, work_dir |-> work_dir]

\* lines 121-129
BuildOutputDir(build_tool) ==
    IF Lower(build_tool) = "next.js" THEN ".next"
    ELSE IF Lower(build_tool) = "angular" THEN "dist/frontend"
    ELSE "dist"

\* lines 132-141
ServeTool(build_tool) ==
    IF Lower(build_tool) = "next.js" THEN "next"
    ELSE IF Lower(build_tool) = "angular" THEN "angular-http-server"
    ELSE "serve"

\* lines 133-142
ServeCommand(config, build_tool) ==
    IF Lower(build_tool) = "next.js"
    THEN "next start -p ${PORT:-" \o ToString(config.expose_port) \o "}"
    ELSE IF Lower(build_tool) = "angular"
    THEN "angular-http-server --path " \o BuildOutputDir(build_tool)
             \o " -p " \o ToString(config.expose_port)
    ELSE "serve -s " \o BuildOutputDir(build_tool) \o " -l " \o ToString(config.expose_port)

\* lines 145-182
DockerfileText(config, framework, build_tool) ==
    "# Stage 1: Build the "
    \o framework
    \o " application with "
    \o build_tool
    \o "\nFROM "
    \o config.base_image
    \o " as build\n\n# Set working directory\nWORKDIR "
    \o config.work_dir
    \o "\n\n# Copy package.json and package-lock.json\nCOPY "
    \o config.copy_source
    \o "/package*.json ./\n\n# Install dependencies\nRUN npm ci\n\n# Copy all frontend files\nCOPY "
    \o config.copy_source
    \o "/ ./\n\n# Build the app\nRUN "
    \o config.build_command
    \o "\n\n# Stage 2: Setup production environment\nFROM "
    \o config.base_image
    \o "\n\nWORKDIR "
    \o config.work_dir
    \o "\n\n# Install serve for a production server\nRUN npm install -g "
    \o ServeTool(build_tool)
    \o "\n\n# Copy build files from the previous stage\nCOPY --from=build "
    \o config.work_dir
    \o "/"
    \o BuildOutputDir(build_tool)
    \o " ./"
    \o BuildOutputDir(build_tool)
    \o "\n\n# Set environment variables\nENV NODE_ENV=production\n\n# Expose the port\nEXPOSE "
    \o ToString(config.expose_port)
    \o "\n\n# Set the command to serve the app\nCMD "
    \o ServeCommand(config, build_tool)
    \o "\n"

\* DockerfileAgent.generate_dockerfile(tech_stack): the text, or the
\* AttributeError of .lower() on a build tool that is no str
GenerateDockerfile(config, ts) ==
    IF ~IsStr(BuildToolOf(ts))
    THEN [exc |-> "AttributeError", text |-> ""]
    ELSE [exc |-> "none",
          text |-> DockerfileText(config, PyStr(FrameworkOf(ts)), BuildToolOf(ts).s)]

\* DockerfileAgent.validate_dockerfile(dockerfile_content)
ValidateDockerfileByElements(dockerfile_content) ==
    \A element \in { "FROM", "WORKDIR", "COPY", "RUN", "EXPOSE", "CMD" } :
        Contains(dockerfile_content, element)

ValidateDockerfile(dockerfile_content) ==
    /\ \A element \in { "FROM", "WORKDIR", "COPY", "RUN", "EXPOSE", "CMD" } :
          Contains(dockerfile_content, element)
    /\ Contains(FirstLines(dockerfile_content, 1), "FROM")

---------------------------------------------------------------------------
(* BuildStatusAgent (agents/build_status_agent.py) *)

\* s.strip() of spaces and newlines
RECURSIVE LStrip(_)
LStrip(s) ==
    IF Len(s) > 0 /\ SubSeq(s, 1, 1) \in { " ", "\n" }
    THEN LStrip(SubSeq(s, 2, Len(s))) ELSE s

RECURSIVE RStrip(_)
RStrip(s) ==
    IF Len(s) > 0 /\ SubSeq(s, Len(s), Len(s)) \in { " ", "\n" }
    THEN RStrip(SubSeq(s, 1, Len(s) - 1)) ELSE s

Strip(s) == LStrip(RStrip(s))

\* the machine the build runs on: whether the docker and curl executables
\* exist, and what the four commands print
Docker(docker, curl, images, ps, health, http_code) ==
    [docker |-> docker, curl |-> curl, images |-> images, ps |-> ps,
     health |-> health, http_code |-> http_code]

Dockers ==
    { Docker(FALSE, TRUE, "", "", "", "000"),
      Docker(TRUE, TRUE, "", "", "", "000"),
      Docker(TRUE, TRUE, "3f2a9c1d\n", "", "", "000"),
      Docker(TRUE, TRUE, "3f2a9c1d\n", "c0ffee12\n", "starting\n", "200"),
      Docker(TRUE, TRUE, "3f2a9c1d\n", "c0ffee12\n", "\n", "200"),
      Docker(TRUE, TRUE, "3f2a9c1d\n", "c0ffee12\n", "healthy\n", "500"),
      Docker(TRUE, FALSE, "3f2a9c1d\n", "c0ffee12\n", "healthy\n", "200"),
      Docker(TRUE, TRUE, "3f2a9c1d\n", "c0ffee12\n", "healthy\n", "200") }

\* BuildStatusConfig.port
BuildStatusPort == 4173

\* _check_container_health
ContainerHealth(d) ==
    IF Strip(d.health) # "" THEN Strip(d.health) ELSE "health check not configured"

\* _check_port_responding: a missing curl raises inside the try
PortResponding(d) == d.curl /\ Strip(d.http_code) = "200"

\* BuildStatusAgent.check_build_status(): the status, or the
\* FileNotFoundError of subprocess.run when there is no docker executable
CheckBuildStatus(d) ==
    IF ~d.docker THEN [exc |-> "FileNotFoundError", status |-> ""]
    ELSE [exc |-> "none",
          status |->
            IF Strip(d.images) = "" THEN "failure: Docker image not found"
            ELSE IF Strip(d.ps) = "" THEN "failure: No running container found"
            ELSE IF ContainerHealth(d) # "healthy"
                 THEN "failure: Container health check failed - " \o ContainerHealth(d)
            ELSE IF ~PortResponding(d)
                 THEN "failure: Application not responding on port "
                          \o ToString(BuildStatusPort)
            ELSE "success: Build and container running properly"]

---------------------------------------------------------------------------
(* BuildPredictorAgent (agents/analysis/build_predictor_agent.py) *)

\* lines 39-41: the endpoint __init__ puts in place of the configured one
PredictorEndpoint == "https://api.groq.com/openai/v1/chat/completions"

\* the "- key: value" lines of a dict, joined by newlines (a dict of more
\* than one key is written in the order CHOOSE takes the keys)
RECURSIVE ItemLines(_)
ItemLines(d) ==
    IF DOMAIN d = {} THEN ""
    ELSE LET key == CHOOSE k \in DOMAIN d : TRUE
             rest == [k \in DOMAIN d \ { key } |-> d[k]]
         IN  "- " \o key \o ": " \o PyStr(d[key])
                 \o (IF DOMAIN rest = {} THEN "" ELSE "\n" \o ItemLines(rest))

\* lines 99-111
PredictionPromptHead(build_data, ts) ==
    "\nAs an AI build prediction expert, analyze the following data about a frontend project and predict whether the next build will succeed or fail.\n\nFrontend Tech Stack:\n"
    \o ItemLines(ts)
    \o "\n\nBuild Environment Data:\n"
    \o ItemLines(build_data)
    \o "\n\nConsider the following factors in your analysis:\n1. Are there any incompatibilities between the Node.js version and the detected framework/libraries?\n2. Are there version compatibility issues between the frontend framework and its dependencies?\n"

\* lines 114-133
FrameworkQuestions(framework) ==
    IF Lower(framework) = "react"
    THEN "\n3. Are there potential issues with React component rendering or hooks?\n4. Could there be problems with JSX syntax or React-specific patterns?\n"
    ELSE IF Lower(framework) = "vue"
    THEN "\n3. Are there potential issues with Vue component structure or lifecycle hooks?\n4. Could there be problems with Vue templates or directives?\n"
    ELSE IF Lower(framework) = "angular"
    THEN "\n3. Are there potential issues with Angular modules, components, or services?\n4. Could there be problems with dependency injection or Angular decorators?\n"
    ELSE IF Lower(framework) = "svelte"
    THEN "\n3. Are there potential issues with Svelte component structure or reactivity?\n4. Could there be problems with Svelte's compile-time framework approach?\n"
    ELSE ""

\* lines 136-150
BuildToolQuestions(build_tool) ==
    IF Lower(build_tool) = "vite"
    THEN "\n5. Are there potential issues with Vite's configuration or plugin system?\n6. Could there be problems with Vite's ES modules approach?\n"
    ELSE IF Lower(build_tool) = "webpack"
    THEN "\n5. Are there potential issues with Webpack's configuration or loaders?\n6. Could there be problems with code splitting or bundle optimization?\n"
    ELSE IF Lower(build_tool) = "next.js"
    THEN "\n5. Are there potential issues with Next.js routing or server-side rendering?\n6. Could there be problems with Next.js API routes or data fetching methods?\n"
    ELSE ""

\* lines 153-167
CssQuestions(css_framework) ==
    IF Lower(css_framework) = "tailwind css"
    THEN "\n7. Are there potential issues with Tailwind CSS configuration or plugin system?\n8. Could there be problems with PurgeCSS or Tailwind's utility-first approach?\n"
    ELSE IF Lower(css_framework) = "bootstrap"
    THEN "\n7. Are there potential issues with Bootstrap components or grid system?\n8. Could there be problems with Bootstrap's JavaScript dependencies?\n"
    ELSE IF Lower(css_framework) \in { "scss", "sass" }
    THEN "\n7. Are there potential issues with SCSS/SASS compilation or variables?\n8. Could there be problems with SCSS/SASS import structure or mixins?\n"
    ELSE ""

\* lines 170-174
TypescriptQuestions(uses_typescript) ==
    IF Truthy(uses_typescript)
    THEN "\n9. Are there TypeScript compilation errors or type definition issues?\n10. Could there be problems with TypeScript configuration or strict mode settings?\n"
    ELSE ""

\* lines 177-183
PredictionFormat ==
    "\nFormat your response as follows:\nPREDICTION: [SUCCESS/FAILURE]\nCONFIDENCE: [percentage]\nREASONING: [detailed explanation of your prediction]\nRECOMMENDATIONS: [suggestions to prevent build failure if applicable]\n"

\* lines 114-167: the AttributeError of .lower() on a field that is no str
PredictionPromptExc(ts) ==
    IF IsStr(FrameworkOf(ts)) /\ IsStr(BuildToolOf(ts)) /\ IsStr(CssFrameworkOf(ts))
    THEN "none" ELSE "AttributeError"

\* lines 99-183
PredictionPrompt(build_data, ts) ==
    PredictionPromptHead(build_data, ts)
    \o FrameworkQuestions(FrameworkOf(ts).s)
    \o BuildToolQuestions(BuildToolOf(ts).s)
    \o CssQuestions(CssFrameworkOf(ts).s)
    \o TypescriptQuestions(UsesTypescript(ts))
    \o PredictionFormat

\* lines 186-192
PredictionMessages(build_data, ts) ==
    <<Msg([role |-> "system",
           content |-> "You are an AI build prediction expert specialized in "
                       \o FrameworkOf(ts).s \o " projects with " \o BuildToolOf(ts).s
                       \o ". You analyze build data and predict outcomes."]),
      Msg([role |-> "user", content |-> PredictionPrompt(build_data, ts)])>>

\* lines 195-202: what predict_build_failure returns for the client's outcome
PredictionOf(outcome) ==
    IF outcome.raised # "none" THEN JStr("Error making prediction: " \o outcome.raised)
    ELSE Get(outcome.value.prediction, "content", JStr("Failed to predict build outcome"))

\* the answers the prediction request gets
PredictionAnswers ==
    { ConnectionLost, Answer500, Answer200(JNull),
      Answer200(JStr("PREDICTION: SUCCESS\nCONFIDENCE: 80%")) }

---------------------------------------------------------------------------
(* main (main.py): one run of the pipeline.  main is a sequential process; *)
(* pc is the statement it executes next, and every action below is one of  *)
(* its calls together with the statements around it.                       *)

\* the six stages, in the order main() lists them
StageNames ==
    <<"DetectTechStack", "GenerateCIConfig", "GenerateDockerfile",
      "BuildAndCheckStatus", "PredictBuildOutcome", "GenerateDocumentation">>

\* the agent that records each of the first five stages
StageAgents ==
    <<"TechStackAgent", "GitHubActionsAgent", "DockerfileAgent",
      "BuildStatusAgent", "BuildPredictorAgent">>

\* the statements of main, in program order, and the stage each belongs to
Statements ==
    <<"configure",
      "detect_tech_stack", "record_tech_stack",
      "snapshot_workflow", "generate_pipeline", "record_pipeline",
      "snapshot_dockerfile", "generate_dockerfile", "record_dockerfile",
      "build_and_check", "record_status",
      "predict", "record_prediction",
      "generate_documentation",
      "done">>

StageOf(statement) ==
    IF statement \in { "detect_tech_stack", "record_tech_stack" } THEN "DetectTechStack"
    ELSE IF statement \in { "snapshot_workflow", "generate_pipeline", "record_pipeline" }
         THEN "GenerateCIConfig"
    ELSE IF statement \in { "snapshot_dockerfile", "generate_dockerfile", "record_dockerfile" }
         THEN "GenerateDockerfile"
    ELSE IF statement \in { "build_and_check", "record_status" } THEN "BuildAndCheckStatus"
    ELSE IF statement \in { "predict", "record_prediction" } THEN "PredictBuildOutcome"
    ELSE IF statement = "generate_documentation" THEN "GenerateDocumentation"
    ELSE "none"

\* the statement after a statement
FollowingWithoutStatusRecord(statement) ==
    Statements[(CHOOSE i \in 1..Len(Statements) : Statements[i] = statement)
               + IF statement = "build_and_check" THEN 2 ELSE 1]

\* the statement after a statement
Following(statement) ==
    Statements[(CHOOSE i \in 1..Len(Statements) : Statements[i] = statement) + 1]

\* os.getenv("GROQ_API_ENDPOINT") and os.getenv("GROQ_API_KEY"): None when
\* the variable is not set
EndpointValues == { JNull, JStr(UsualEndpoint) }
KeyValues == { JNull, JStr("gsk_test") }

\* main before its first statement
MainStart ==
    /\ pc = "configure"
    /\ stages = <<>>
    /\ raised = "none"
    /\ tech_stack = EmptyDict
    /\ build_status = ""
    /\ build_prediction = JAbsent

\* an exception leaves main: nothing after the raising statement is executed
Abort(exc) ==
    /\ pc' = "aborted"
    /\ raised' = exc
    /\ UNCHANGED <<stages, tech_stack, build_status, build_prediction>>

\* the statement is done and main goes on to the next one; a stage is
\* finished with its last statement
Proceed ==
    /\ pc' = Following(pc)
    /\ stages' = IF StageOf(Following(pc)) # StageOf(pc) /\ StageOf(pc) # "none"
                 THEN Append(stages, StageOf(pc))
                 ELSE stages
    /\ raised' = "none"

\* the answers a request to `url` can get, of the answers the service gives
AnswersTo(url, answers) == IF HasScheme(url) THEN answers ELSE Post(url)

\* a text request of an agent's own client, built on `endpoint`
AgentRequest(endpoint, messages, answers, resp) ==
    /\ calls' = calls + 1
    /\ args' = [has_messages |-> TRUE]
    /\ caller_messages' = EnhanceMessages(messages)
    /\ sent' = [url |-> RequestURL(InitEndpoint(endpoint)), model |-> ModelId,
                messages |-> EnhanceMessages(messages)]
    /\ resp \in AnswersTo(RequestURL(InitEndpoint(endpoint)), answers)
    /\ upstream' = resp
    /\ last' = Outcome("text", resp)
    /\ UNCHANGED <<configured_endpoint, api_endpoint>>

\* lines 35-40: DocumentationConfig has two required `str` fields; the
\* documentation agent and its client are built from it
Configure(endpoint, key) ==
    /\ pc = "configure"
    /\ IF IsStr(endpoint) /\ IsStr(key)
       THEN /\ configured_endpoint' = endpoint.s
            /\ api_endpoint' = InitEndpoint(endpoint.s)
            /\ Proceed
            /\ UNCHANGED <<tech_stack, build_status, build_prediction>>
       ELSE /\ Abort("ValidationError")
            /\ UNCHANGED <<configured_endpoint, api_endpoint>>
    /\ UNCHANGED <<caller_messages, sent, upstream, args, last, calls,
                   tracker_vars, doc_vars>>
    /\ UNCHANGED agent_vars

\* lines 44-59: the tech-stack agent reads the frontend directory and asks
\* the service
DetectTechStack(frontend, resp) ==
    /\ pc = "detect_tech_stack"
    /\ IF CollectExc(frontend) # "none"
       THEN /\ Abort(CollectExc(frontend))
            /\ UNCHANGED client_vars
       ELSE /\ AgentRequest(configured_endpoint, AnalysisMessages(frontend),
                            TechAnswers, resp)
            /\ tech_stack' = AnalyzeTechStack(Outcome("text", resp))
            /\ Proceed
            /\ UNCHANGED <<build_status, build_prediction>>
    /\ UNCHANGED <<tracker_vars, doc_vars>>
    /\ UNCHANGED agent_vars

\* lines 62-67
RecordTechStack ==
    /\ pc = "record_tech_stack"
    /\ record_change("TechStackAgent", "frontend/", "Analyzed frontend tech stack",
                     Details(tech_stack))
    /\ Proceed
    /\ UNCHANGED <<client_vars, doc_vars, tech_stack, build_status, build_prediction>>
    /\ UNCHANGED agent_vars

\* line 75 and line 112
SnapshotBefore(statement, path) ==
    /\ pc = statement
    /\ record_file_snapshot(path)
    /\ Proceed
    /\ UNCHANGED <<client_vars, doc_vars, tech_stack, build_status, build_prediction>>
    /\ UNCHANGED agent_vars

\* lines 77-86: node_version is a `str` field
MainPipelineConfig ==
    GitHubActionsConfig(PyStr(FrameworkOf(tech_stack)) \o " "
                            \o PyStr(BuildToolOf(tech_stack)) \o " CI Pipeline",
                        "3.13.0", TRUE, TRUE, TRUE)

PipelineExc ==
    IF ~IsStr(Get(tech_stack, "node_version", JStr("18.x"))) THEN "ValidationError"
    ELSE GeneratePipeline(MainPipelineConfig, tech_stack).exc

\* lines 77-97: the pipeline is generated and written; write_ok tells
\* whether the file can be opened for writing
GeneratePipelineFile(write_ok) ==
    /\ pc = "generate_pipeline"
    /\ IF PipelineExc # "none"
       THEN Abort(PipelineExc) /\ UNCHANGED tracker_vars
       ELSE IF ~write_ok
       THEN Abort("PermissionError") /\ UNCHANGED tracker_vars
       ELSE /\ write_file(WorkflowFile, GeneratePipeline(MainPipelineConfig, tech_stack).text)
            /\ Proceed
            /\ UNCHANGED <<tech_stack, build_status, build_prediction>>
    /\ UNCHANGED <<client_vars, doc_vars>>
    /\ UNCHANGED agent_vars

\* lines 100-105
RecordPipeline ==
    /\ pc = "record_pipeline"
    /\ record_change("GitHubActionsAgent", WorkflowFile,
                     "Created CI/CD pipeline for " \o PyStr(FrameworkOf(tech_stack))
                         \o " with " \o PyStr(BuildToolOf(tech_stack)),
                     Details([framework |-> FrameworkOf(tech_stack),
                              build_tool |-> BuildToolOf(tech_stack)]))
    /\ Proceed
    /\ UNCHANGED <<client_vars, doc_vars, tech_stack, build_status, build_prediction>>
    /\ UNCHANGED agent_vars

\* lines 114-123
MainDockerfileConfig ==
    DockerfileConfig("node:18-alpine", "npm run build", "npm run preview", 4173,
                     "./frontend", "/app")

\* lines 114-131
GenerateDockerfileFile(write_ok) ==
    /\ pc = "generate_dockerfile"
    /\ IF GenerateDockerfile(MainDockerfileConfig, tech_stack).exc # "none"
       THEN /\ Abort(GenerateDockerfile(MainDockerfileConfig, tech_stack).exc)
            /\ UNCHANGED tracker_vars
       ELSE IF ~write_ok
       THEN Abort("PermissionError") /\ UNCHANGED tracker_vars
       ELSE /\ write_file(DockerfilePath,
                          GenerateDockerfile(MainDockerfileConfig, tech_stack).text)
            /\ Proceed
            /\ UNCHANGED <<tech_stack, build_status, build_prediction>>
    /\ UNCHANGED <<client_vars, doc_vars>>
    /\ UNCHANGED agent_vars

\* lines 134-144
RecordDockerfile ==
    /\ pc = "record_dockerfile"
    /\ record_change("DockerfileAgent", DockerfilePath,
                     "Created Dockerfile for " \o PyStr(FrameworkOf(tech_stack))
                         \o " application with " \o PyStr(BuildToolOf(tech_stack)),
                     Details([framework |-> FrameworkOf(tech_stack),
                              build_tool |-> BuildToolOf(tech_stack),
                              base_image |-> JStr("node:18-alpine"),
                              expose_port |-> JInt(4173)]))
    /\ Proceed
    /\ UNCHANGED <<client_vars, doc_vars, tech_stack, build_status, build_prediction>>
    /\ UNCHANGED agent_vars

\* lines 150-165: `docker build` through subprocess.run, which raises
\* FileNotFoundError without the executable, then check_build_status
BuildAndCheck(d) ==
    /\ pc = "build_and_check"
    /\ IF CheckBuildStatus(d).exc # "none"
       THEN Abort(CheckBuildStatus(d).exc)
       ELSE /\ build_status' = CheckBuildStatus(d).status
            /\ Proceed
            /\ UNCHANGED <<tech_stack, build_prediction>>
    /\ UNCHANGED <<client_vars, tracker_vars, doc_vars>>
    /\ UNCHANGED agent_vars

\* lines 168-177
RecordStatus ==
    /\ pc = "record_status"
    /\ record_change("BuildStatusAgent", "Docker Image",
                     "Built and verified Docker image for " \o PyStr(FrameworkOf(tech_stack)),
                     Details([status |-> JStr(build_status),
                              image_tag |-> JStr("devgenius-frontend:latest"),
                              framework |-> FrameworkOf(tech_stack)]))
    /\ Proceed
    /\ UNCHANGED <<client_vars, doc_vars, tech_stack, build_status, build_prediction>>
    /\ UNCHANGED agent_vars

\* lines 191-198
BuildData ==
    [dockerfile_exists |-> JBool(TRUE),
     ci_pipeline_exists |-> JBool(TRUE),
     last_build_status |-> JStr(build_status),
     node_version |-> Get(tech_stack, "node_version", JStr("18.x")),
     typescript_version |-> Get(tech_stack, "typescript_version", JStr("^5.0.0")),
     dependencies_updated |-> JBool(TRUE)]

\* lines 183-204
Predict(resp) ==
    /\ pc = "predict"
    /\ IF PredictionPromptExc(tech_stack) # "none"
       THEN /\ Abort(PredictionPromptExc(tech_stack))
            /\ UNCHANGED client_vars
       ELSE /\ AgentRequest(PredictorEndpoint, PredictionMessages(BuildData, tech_stack),
                            PredictionAnswers, resp)
            /\ build_prediction' = PredictionOf(Outcome("text", resp))
            /\ Proceed
            /\ UNCHANGED <<tech_stack, build_status>>
    /\ UNCHANGED <<tracker_vars, doc_vars>>
    /\ UNCHANGED agent_vars

\* lines 207-216
RecordPrediction ==
    /\ pc = "record_prediction"
    /\ record_change("BuildPredictorAgent", "Build Analysis",
                     "Predicted build outcome for " \o PyStr(FrameworkOf(tech_stack))
                         \o " with " \o PyStr(BuildToolOf(tech_stack)),
                     Details([prediction |-> build_prediction,
                              build_data |-> JDict(BuildData),
                              tech_stack |-> JDict(tech_stack)]))
    /\ Proceed
    /\ UNCHANGED <<client_vars, doc_vars, tech_stack, build_status, build_prediction>>
    /\ UNCHANGED agent_vars

\* the answers the documentation request gets in a run of main
DocumentationAnswers ==
    { ConnectionLost, Answer500, Answer200(JNull), Answer200(JStr("ok")) }

\* line 220
GenerateDocumentation(open_ok, resp) ==
    /\ pc = "generate_documentation"
    /\ generate_documentation(open_ok, resp)
    /\ Proceed
    /\ UNCHANGED <<tech_stack, build_status, build_prediction>>
    /\ UNCHANGED agent_vars

---------------------------------------------------------------------------
(* ChatAgent (agents/chat_agent.py) *)

\* the fields of ChatAgentConfig that decide the request
ChatAgentConfig(chat_model_id, groq_api_endpoint) ==
    [chat_model_id |-> chat_model_id, groq_api_endpoint |-> groq_api_endpoint]

\* lines 51-64: the configuration as __init__ leaves it
ChatAgentInit(config) ==
    ChatAgentConfig(
        IF config.chat_model_id = "llama3-8b-8192" THEN "llama2-70b-4096"
        ELSE config.chat_model_id,
        IF config.groq_api_endpoint = "" \/ config.groq_api_endpoint = "***"
        THEN "https://api.groq.com/openai/v1/chat/completions"
        ELSE config.groq_api_endpoint)

\* lines 113-118
ContextStrOfContextAlone(context) ==
    IF Truthy(context) THEN PyStr(context) ELSE "You are a helpful AI assistant."

ContextStr(context) ==
    IF Truthy(context)
    THEN "You are a helpful AI assistant. Additional context: " \o PyStr(context)
    ELSE "You are a helpful AI assistant."

\* lines 120-124
ChatRequestOf(config, user_message, context) ==
    [model_id |-> config.chat_model_id, user_message |-> user_message,
     context |-> ContextStr(context)]

\* lines 130-139: the response of the client, or the one made up when the
\* client raised
ChatInteractionResult(outcome) ==
    IF outcome.raised # "none"
    THEN [response |-> "Error: Failed to communicate with GROQ API",
          metadata |-> [error |-> outcome.raised]]
    ELSE outcome.value

\* ChatAgent.perform_chat_interaction(user_message, context)
perform_chat_interaction(user_message, context) ==
    /\ send_chat_create_request(ChatRequestOf(called.config, user_message, context))
    /\ called' = [op |-> "perform_chat_interaction", config |-> called.config,
                  user_message |-> user_message, context |-> context,
                  result |-> ChatInteractionResult(last')]
    /\ UNCHANGED pr_comments

\* line 150 (the robot emoji is written :robot:)
CommentOf(bot_response) == ":robot: **AI Assistant:** " \o bot_response

\* line 165
ReviewMessage ==
    "Please review the recent changes in this pull request for code quality and potential issues."

\* line 168: hasattr(response, "response") and response.response
HasContentAndNoError(response) ==
    response.response # "" /\ "error" \notin DOMAIN response.metadata

HasContent(response) == response.response # ""

\* lines 171-175 and 178-180: the dictionaries run returns
RunSuccess(response) ==
    [bot_response |-> JStr(response.response), metadata |-> JDict(response.metadata),
     status |-> JStr("success")]

RunError ==
    [error |-> JStr("Failed to get a successful response from GROQ Chat-Create API.")]

\* ChatAgent.run(); `github` is what the three GitHub calls of
\* post_feedback_to_github do: "ok", or the exception one of them raises
run(github) ==
    /\ send_chat_create_request(ChatRequestOf(called.config, ReviewMessage, JNull))
    /\ \E response \in { ChatInteractionResult(last') } :
          IF ~HasContent(response)
          THEN /\ called' = [op |-> "run", config |-> called.config, response |-> response,
                             posting |-> "none", raised |-> "none", result |-> RunError]
               /\ UNCHANGED pr_comments
          ELSE IF github # "ok"
          THEN /\ called' = [op |-> "run", config |-> called.config, response |-> response,
                             posting |-> github, raised |-> github, result |-> EmptyDict]
               /\ UNCHANGED pr_comments
          ELSE /\ called' = [op |-> "run", config |-> called.config, response |-> response,
                             posting |-> github, raised |-> "none",
                             result |-> RunSuccess(response)]
               /\ pr_comments' = Append(pr_comments, CommentOf(response.response))

---------------------------------------------------------------------------
(* The agent methods called on their own: generate_pipeline,               *)
(* generate_dockerfile, validate_dockerfile and check_build_status.  Each  *)
(* is a function of its arguments (and of the machine, for the build       *)
(* status); `called` holds the last call.                                  *)

\* a tech-stack descriptor: framework, build tool, CSS framework and the
\* TypeScript flag
Descriptor(framework, build_tool, css_framework, typescript) ==
    [framework |-> JStr(framework), build_tool |-> JStr(build_tool),
     css_framework |-> JStr(css_framework), typescript |-> JBool(typescript)]

VueWebpackDescriptor == Descriptor("Vue", "Webpack", "Bootstrap", FALSE)

Descriptors ==
    { Descriptor(f, b, "Bootstrap", t) :
        f \in { "Vue", "React", "FROMjs" },
        b \in { "Webpack", "Vite", "Next.js", "Angular" },
        t \in BOOLEAN }

\* the configurations of the GitHub Actions agent: main's, with each of the
\* lint and test steps switched on or off
PipelineConfigs ==
    { GitHubActionsConfig("Vue Webpack CI Pipeline", "3.13.0", run_tests, run_linting, TRUE) :
        run_tests \in BOOLEAN, run_linting \in BOOLEAN }

\* the configurations of the Dockerfile agent: main's (main.py, lines
\* 114-123) and the fallback of fetch_config completed with commands
DockerfileConfigs ==
    { DockerfileConfig("node:18-alpine", "npm run build", "npm run preview", 4173,
                       "./frontend", "/app"),
      DockerfileConfig("nginx:alpine", "yarn build", "nginx -g daemon off;", 80,
                       "./html", "/usr/share/nginx/html") }

\* Dockerfiles written by hand
WrittenDockerfiles ==
    { "FROM node:18-alpine\nWORKDIR /app\nCOPY . .\nRUN npm ci\nEXPOSE 80\nCMD npm start\n",
      "FROM node:18-alpine\nWORKDIR /app\nCOPY . .\nRUN npm ci\nCMD npm start\n",
      "# syntax=docker/dockerfile:1\nFROM node:18-alpine\nWORKDIR /app\nCOPY . .\nRUN npm ci\nEXPOSE 80\nCMD npm start\n",
      "ARG TAG\nWORKDIR /app\nCOPY . .\nRUN npm ci\nEXPOSE 80\nCMD npm start\n",
      "" }

\* the Dockerfiles generate_dockerfile produces
GeneratedDockerfiles ==
    { GenerateDockerfile(config, ts).text : config \in DockerfileConfigs, ts \in Descriptors }

\* GitHubActionsAgent.generate_pipeline(tech_stack)
generate_pipeline(config, ts) ==
    /\ called' = [op |-> "generate_pipeline", config |-> config, tech_stack |-> ts,
                  result |-> GeneratePipeline(config, ts)]
    /\ UNCHANGED pr_comments

\* DockerfileAgent.generate_dockerfile(tech_stack)
generate_dockerfile(config, ts) ==
    /\ called' = [op |-> "generate_dockerfile", config |-> config, tech_stack |-> ts,
                  result |-> GenerateDockerfile(config, ts)]
    /\ UNCHANGED pr_comments

\* DockerfileAgent.validate_dockerfile(dockerfile_content)
validate_dockerfile(dockerfile_content) ==
    /\ called' = [op |-> "validate_dockerfile", dockerfile_content |-> dockerfile_content,
                  result |-> ValidateDockerfile(dockerfile_content)]
    /\ UNCHANGED pr_comments

\* lines 52-72: the signals check_build_status evaluates, in the order of
\* its calls; each `return` comes before the calls after it
SignalsEvaluated(d) ==
    IF ~d.docker \/ Strip(d.images) = "" THEN <<"image">>
    ELSE IF Strip(d.ps) = "" THEN <<"image", "container">>
    ELSE IF ContainerHealth(d) # "healthy" THEN <<"image", "container", "health">>
    ELSE <<"image", "container", "health", "port">>

\* BuildStatusAgent.check_build_status() on the machine d
check_build_status(d) ==
    /\ called' = [op |-> "check_build_status", machine |-> d,
                  evaluated |-> SignalsEvaluated(d),
                  result |-> CheckBuildStatus(d)]
    /\ UNCHANGED pr_comments

---------------------------------------------------------------------------
(* Specifications *)

\* the tracker of a client that is not looked at, and the client of a
\* tracker that is not looked at
ClientIdle ==
    /\ configured_endpoint = UsualEndpoint
    /\ api_endpoint = InitEndpoint(configured_endpoint)
    /\ caller_messages = <<>>
    /\ sent = NoRequest
    /\ upstream = NoUpstream
    /\ args = NoArgs
    /\ last = NoCall
    /\ calls = 0

TrackerIdle ==
    /\ file_snapshots = EmptyDict
    /\ changes = <<>>
    /\ clock = 0
    /\ disk = [p \in Paths |-> NoFile]
    /\ last_op = NoOp

DocIdle ==
    /\ documentation = NoDocumentation
    /\ doc_files = EmptyDict

\* no agent method has been called
NoCalled == [op |-> "none"]

AgentsIdle ==
    /\ called = NoCalled
    /\ pr_comments = <<>>

\* no run of main is looked at
MainIdle ==
    /\ pc = "idle"
    /\ stages = <<>>
    /\ raised = "none"
    /\ tech_stack = EmptyDict
    /\ build_status = ""
    /\ build_prediction = JAbsent

ClientNext ==
    \/ \E has_messages \in BOOLEAN :
          send_inference_request(has_messages) /\ UNCHANGED <<tracker_vars, doc_vars, main_vars, agent_vars>>
    \/ \E req \in CodeReviewRequests :
          send_code_review_request(req) /\ UNCHANGED <<tracker_vars, doc_vars, main_vars, agent_vars>>
    \/ \E req \in ChatCreateRequests :
          send_chat_create_request(req) /\ UNCHANGED <<tracker_vars, doc_vars, main_vars, agent_vars>>

ClientSpecInit == ClientInit /\ TrackerIdle /\ DocIdle /\ MainIdle /\ AgentsIdle

ClientSpec == ClientSpecInit /\ [][ClientNext]_vars

TrackerNext ==
    \/ \E p \in Paths : record_file_snapshot(p) /\ UNCHANGED <<client_vars, doc_vars, main_vars, agent_vars>>
    \/ \E p \in Paths :
          /\ Len(changes) < MaxChanges
          /\ record_change("GitHubActionsAgent", p, "Created CI/CD pipeline", NoDetails)
          /\ UNCHANGED <<client_vars, doc_vars, main_vars, agent_vars>>
    \/ \E p \in Paths : \E c \in FileContents(p) : write_file(p, c) /\ UNCHANGED <<client_vars, doc_vars, main_vars, agent_vars>>
    \/ \E p \in Paths : remove_file(p) /\ UNCHANGED <<client_vars, doc_vars, main_vars, agent_vars>>

TrackerSpecInit == TrackerInit /\ ClientIdle /\ DocIdle /\ MainIdle /\ AgentsIdle

TrackerSpec == TrackerSpecInit /\ [][TrackerNext]_vars

\* the documentation agent of a run: changes are recorded by two agents, the
\* workflow file is rewritten, and the documentation is asked for
DocRecords ==
    { [agent_name |-> "TechStackAgent", details |-> Details([error |-> JStr("500 Server Error")])],
      [agent_name |-> "GitHubActionsAgent", details |-> NoDetails] }

\* the answers the documentation request gets: a lost connection, status
\* 200 or 500, and every body with at most one choice
DocAnswers ==
    { up \in Upstreams :
        /\ up.net \in { "ok", "ConnectionError" }
        /\ up.status \in { 0, 200, 500 }
        /\ (up.net = "ok" /\ up.body.json = "object" /\ up.body.choices.t = "list")
           => /\ Len(up.body.choices.items) <= 1
              /\ up.body.model.t = "absent"
              /\ up.body.usage.t = "absent" }

\* changes are recorded before the documentation is requested, as main does
DocNext ==
    \/ \E r \in DocRecords :
          /\ calls = 0
          /\ Len(changes) < MaxChanges
          /\ record_change(r.agent_name, WorkflowFile, "Created CI/CD pipeline", r.details)
          /\ UNCHANGED <<client_vars, doc_vars, main_vars, agent_vars>>
    \/ \E open_ok \in BOOLEAN : \E resp \in DocAnswers :
          /\ calls < MaxCalls
          /\ generate_documentation(open_ok, resp)
          /\ UNCHANGED <<main_vars, agent_vars>>

\* the tracker as record_file_snapshot and the agents' writes can leave it:
\* the workflow file with or without a snapshot, changed since or not
DocSpecInit ==
    /\ ClientIdle
    /\ DocIdle
    /\ MainIdle
    /\ AgentsIdle
    /\ file_snapshots \in { EmptyDict, Put(EmptyDict, WorkflowFile, "name: CI") }
    /\ changes = <<>>
    /\ clock = 0
    /\ \E c \in { "name: CI", "name: CI\non: push" } :
          disk = [p \in Paths |-> IF p = WorkflowFile THEN File(c) ELSE NoFile]
    /\ last_op = NoOp

DocSpec == DocSpecInit /\ [][DocNext]_vars

\* the documentation of changes recorded by three agents in any order
GroupedAgents == { "TechStackAgent", "GitHubActionsAgent", "DockerfileAgent" }

MaxGroupedChanges == 3

\* the answers to the documentation request: a lost connection, or status
\* 200 with a body of one choice
GroupingAnswers ==
    { up \in DocAnswers :
        up.net = "ok"
        => /\ up.status = 200
           /\ up.body.json = "object"
           /\ up.body.choices.t = "list"
           /\ Len(up.body.choices.items) = 1 }

GroupingNext ==
    \/ \E agent_name \in GroupedAgents :
          /\ calls = 0
          /\ Len(changes) < MaxGroupedChanges
          /\ record_change(agent_name, WorkflowFile, "Created CI/CD pipeline", NoDetails)
          /\ UNCHANGED <<client_vars, doc_vars, main_vars, agent_vars>>
    \/ \E open_ok \in BOOLEAN : \E resp \in GroupingAnswers :
          /\ calls = 0
          /\ generate_documentation(open_ok, resp)
          /\ UNCHANGED <<main_vars, agent_vars>>

\* the workflow file was snapshotted and has been rewritten since
GroupingSpecInit ==
    /\ ClientIdle
    /\ DocIdle
    /\ MainIdle
    /\ AgentsIdle
    /\ file_snapshots = Put(EmptyDict, WorkflowFile, "name: CI")
    /\ changes = <<>>
    /\ clock = 0
    /\ disk = [p \in Paths |-> IF p = WorkflowFile THEN File("name: CI\non: push") ELSE NoFile]
    /\ last_op = NoOp

GroupingSpec == GroupingSpecInit /\ [][GroupingNext]_vars

\* a run of main: the environment variables are set or not, the frontend
\* directory, the machine and the service are drawn at the statement that
\* reads them
MainNext ==
    \/ \E endpoint \in EndpointValues : \E key \in KeyValues : Configure(endpoint, key)
    \/ \E frontend \in Frontends : \E resp \in TechAnswers : DetectTechStack(frontend, resp)
    \/ RecordTechStack
    \/ SnapshotBefore("snapshot_workflow", WorkflowFile)
    \/ \E write_ok \in BOOLEAN : GeneratePipelineFile(write_ok)
    \/ RecordPipeline
    \/ SnapshotBefore("snapshot_dockerfile", DockerfilePath)
    \/ \E write_ok \in BOOLEAN : GenerateDockerfileFile(write_ok)
    \/ RecordDockerfile
    \/ \E d \in Dockers : BuildAndCheck(d)
    \/ RecordStatus
    \/ \E resp \in PredictionAnswers : Predict(resp)
    \/ RecordPrediction
    \/ \E open_ok \in BOOLEAN : \E resp \in DocumentationAnswers :
          GenerateDocumentation(open_ok, resp)

\* main starts in a checkout where the two generated files exist from an
\* earlier run or do not exist
MainSpecInit ==
    /\ ClientIdle
    /\ DocIdle
    /\ MainStart
    /\ AgentsIdle
    /\ file_snapshots = EmptyDict
    /\ changes = <<>>
    /\ clock = 0
    /\ disk \in { [p \in Paths |-> NoFile],
                  [p \in Paths |-> IF p = WorkflowFile THEN File("name: CI") ELSE NoFile],
                  [p \in Paths |-> IF p = WorkflowFile THEN File("name: CI")
                                   ELSE File("FROM node:18-alpine\n")] }
    /\ last_op = NoOp

MainSpec == MainSpecInit /\ [][MainNext]_vars

\* calls of the agent methods, in any order
AgentsNext ==
    \/ \E config \in PipelineConfigs : \E ts \in Descriptors :
          generate_pipeline(config, ts)
              /\ UNCHANGED <<client_vars, tracker_vars, doc_vars, main_vars>>
    \/ \E config \in DockerfileConfigs : \E ts \in Descriptors :
          generate_dockerfile(config, ts)
              /\ UNCHANGED <<client_vars, tracker_vars, doc_vars, main_vars>>
    \/ \E d \in WrittenDockerfiles \cup GeneratedDockerfiles :
          validate_dockerfile(d)
              /\ UNCHANGED <<client_vars, tracker_vars, doc_vars, main_vars>>
    \/ \E d \in Dockers :
          check_build_status(d)
              /\ UNCHANGED <<client_vars, tracker_vars, doc_vars, main_vars>>

AgentsSpecInit == ClientIdle /\ TrackerIdle /\ DocIdle /\ MainIdle /\ AgentsIdle

AgentsSpec == AgentsSpecInit /\ [][AgentsNext]_vars

\* a chat agent: its configuration, the messages and contexts it is called
\* with, and what GitHub does with a comment
ChatAgentConfigs ==
    { ChatAgentConfig(chat_model_id, groq_api_endpoint) :
        chat_model_id \in { "llama3-8b-8192", "mixtral-8x7b-32768" },
        groq_api_endpoint \in { "", "***", "https://api.groq.com/" } }

ChatContexts ==
    { JNull, JDict(EmptyDict), JDict([pr |-> JStr("42")]),
      JDict([role |-> JStr("release manager")]) }

UserMessages == { ReviewMessage, "How do I cache npm?" }

GithubOutcomes == { "ok", "GithubException" }

ChatNext ==
    \/ \E user_message \in UserMessages : \E context \in ChatContexts :
          perform_chat_interaction(user_message, context)
              /\ UNCHANGED <<tracker_vars, doc_vars, main_vars>>
    \/ \E github \in GithubOutcomes :
          run(github) /\ UNCHANGED <<tracker_vars, doc_vars, main_vars>>

\* ChatAgent.__init__: the client is built for the endpoint of the
\* configuration
ChatSpecInit ==
    /\ \E config \in ChatAgentConfigs :
          /\ called = [op |-> "ChatAgent", config |-> ChatAgentInit(config)]
          /\ configured_endpoint = ChatAgentInit(config).groq_api_endpoint
    /\ api_endpoint = InitEndpoint(configured_endpoint)
    /\ caller_messages = <<>>
    /\ sent = NoRequest
    /\ upstream = NoUpstream
    /\ args = NoArgs
    /\ last = NoCall
    /\ calls = 0
    /\ pr_comments = <<>>
    /\ TrackerIdle
    /\ DocIdle
    /\ MainIdle

ChatSpec == ChatSpecInit /\ [][ChatNext]_vars

---------------------------------------------------------------------------
(* Properties of the client.  They are stated over the last call: its      *)
(* arguments (args), the request it made (sent), the answer it got         *)
(* (upstream) and what it returned or raised (last).                       *)

\* the answer came with a 2xx status
Received2xx == upstream.net = "ok" /\ upstream.status \in 200..299

\* the body is a JSON mapping
GotMapping == upstream.net = "ok" /\ upstream.body.json = "object"

\* ... with a non-empty "choices" list
GotChoices ==
    /\ GotMapping
    /\ upstream.body.choices.t = "list"
    /\ Len(upstream.body.choices.items) > 0

\* ... whose first element is {message: {content: X}} with X a string
GotWellFormed ==
    /\ GotChoices
    /\ upstream.body.choices.items[1].t = "dict"
    /\ upstream.body.choices.items[1].message.t = "dict"
    /\ upstream.body.choices.items[1].message.content.t = "str"

GotContent == upstream.body.choices.items[1].message.content

\* C1: a 2xx payload (a mapping) without a "choices" key, or with an empty
\* "choices" list, makes send_inference_request return, not raise, a result
\* with status "error" whose prediction content is the non-empty text
\* "No response from GROQ API"
C1_NoChoicesGivesErrorText ==
    ( /\ last.kind = "text"
      /\ Received2xx
      /\ GotMapping
      /\ \/ upstream.body.choices.t = "absent"
         \/ upstream.body.choices.t = "list" /\ upstream.body.choices.items = <<>> )
    => /\ last.raised = "none"
       /\ last.value.status = "error"
       /\ DOMAIN last.value.prediction = { "content" }
       /\ last.value.prediction.content = JStr("No response from GROQ API")
       /\ Len(last.value.prediction.content.s) > 0

C1_Witness ==
    /\ last.kind = "text"
    /\ Received2xx
    /\ GotMapping
    /\ upstream.body.choices.t = "list"
    /\ upstream.body.choices.items = <<>>
    /\ last.raised = "none"
    /\ last.value.status = "error"

\* C2: for a well-formed 2xx payload {choices: [{message: {content: X}}]}
\* send_inference_request returns status "success" with prediction content
\* exactly X, character for character
C2_ContentRoundTrip ==
    (last.kind = "text" /\ Received2xx /\ GotWellFormed)
    => /\ last.raised = "none"
       /\ last.value.status = "success"
       /\ DOMAIN last.value.prediction = { "content" }
       /\ last.value.prediction.content.t = "str"
       /\ last.value.prediction.content.s = GotContent.s

C2_Witness ==
    /\ last.kind = "text"
    /\ Received2xx
    /\ GotWellFormed
    /\ GotContent.s = " padded \n"
    /\ last.value.prediction.content.s = " padded \n"

FirstMessageNotAMapping ==
    Len(caller_messages) > 0 /\ caller_messages[1].t # "dict"

\* the answer reaches the result model with a content that is no string
ContentNotAString ==
    /\ upstream.net = "ok"
    /\ ~(upstream.status \in 400..599)
    /\ GotChoices
    /\ upstream.body.choices.items[1].t = "dict"
    /\ upstream.body.choices.items[1].message.t = "dict"
    /\ upstream.body.choices.items[1].message.content.t \in { "null", "num" }

\* the fields of a returned result are those of the call's kind
ResultOfKind ==
    DOMAIN last.value =
        IF last.kind = "text" THEN { "prediction", "confidence", "status" }
        ELSE IF last.kind = "review" THEN { "issues", "suggestions", "overall_quality" }
        ELSE { "response", "metadata" }

\* the returned result is the kind's error result
ErrorShaped ==
    /\ last.raised = "none"
    /\ IF last.kind = "text" THEN last.value.status = "error"
       ELSE IF last.kind = "review"
            THEN /\ Len(last.value.issues) = 1
                 /\ last.value.issues[1].severity = "error"
       ELSE "error" \in DOMAIN last.value.metadata

C4_Non2xxGivesError ==
    ( /\ last.kind # "none"
      /\ sent # NoRequest
      /\ upstream.net # "ok" \/ ~(upstream.status \in 200..299) )
    => ErrorShaped

\* C4 (amended): a 4xx or 5xx status, and any network failure, makes each of
\* the three send methods return its kind's error result (text: status
\* "error"; review: one issue of severity "error"; chat: metadata holding
\* "error") and raise nothing
C4_HttpErrorGivesError ==
    ( /\ last.kind # "none"
      /\ sent # NoRequest
      /\ upstream.net # "ok" \/ upstream.status \in 400..599 )
    => /\ ErrorShaped
       /\ ResultOfKind

C4_Witness ==
    /\ last.kind = "review"
    /\ upstream.net = "ok"
    /\ upstream.status = 500
    /\ upstream.body.json = "object"
    /\ ErrorShaped

\* the part of a URL after its scheme
AfterScheme(url) ==
    IF StartsWith(url, "https://") THEN SubSeq(url, 9, Len(url))
    ELSE IF StartsWith(url, "http://") THEN SubSeq(url, 8, Len(url))
    ELSE url

\* the configured URL without its trailing slashes
StrippedBase == RStripSlash(configured_endpoint)

\* the request URL is the stripped base with the path appended
PathAppended == sent.url = StrippedBase \o "/" \o CompletionPath

\* C5: for a configured base URL that does not contain the completion path,
\* with any number of trailing slashes, every send operation requests the
\* base URL with its trailing slashes stripped followed by
\* "/openai/v1/chat/completions": the path occurs exactly once and there is
\* no double slash after the scheme; "https://api.example.com/" gives
\* "https://api.example.com/openai/v1/chat/completions"
C5_BaseUrlGetsPathOnce ==
    (sent # NoRequest /\ ~Contains(configured_endpoint, CompletionPath))
    => /\ PathAppended
       /\ Count(sent.url, CompletionPath) = 1
       /\ ~Contains(AfterScheme(sent.url), "//")
       /\ configured_endpoint = "https://api.example.com/"
             => sent.url = "https://api.example.com/openai/v1/chat/completions"

C5_Witness ==
    /\ sent # NoRequest
    /\ last.kind = "chat"
    /\ configured_endpoint = "https://api.example.com//"
    /\ sent.url = "https://api.example.com/openai/v1/chat/completions"

\* C6 as claimed: the path is appended if and only if the configured URL,
\* trailing slashes stripped, does not END in the completion path
C6_AppendedIffNotAtEnd ==
    sent # NoRequest =>
        IF EndsWith(StrippedBase, CompletionPath)
        THEN sent.url = StrippedBase
        ELSE PathAppended

\* C6 (amended): the path is appended if and only if the configured URL does
\* not CONTAIN "openai/v1/chat/completions" anywhere; a URL that contains it,
\* at its end or elsewhere, is requested as configured with its trailing
\* slashes stripped, and normalising the request URL again changes nothing
C6_AppendedIffNotContained ==
    sent # NoRequest =>
        /\ IF Contains(configured_endpoint, CompletionPath)
           THEN sent.url = StrippedBase
           ELSE PathAppended
        /\ Contains(sent.url, CompletionPath)
        /\ RequestURL(InitEndpoint(sent.url)) = sent.url

C6_Witness ==
    /\ sent # NoRequest
    /\ configured_endpoint = "https://api.groq.com/openai/v1/chat/completions/v2/"
    /\ sent.url = "https://api.groq.com/openai/v1/chat/completions/v2"

\* C7 as claimed: the messages of every text request begin with a
\* role=system message
C7_SystemMessageFirst ==
    (last.kind = "text" /\ sent # NoRequest)
    => /\ Len(sent.messages) > 0
       /\ sent.messages[1].t = "dict"
       /\ "role" \in DOMAIN sent.messages[1].d
       /\ sent.messages[1].d.role = "system"

\* a text call that got as far as the request
TextRequestStep ==
    /\ calls' = calls + 1
    /\ last'.kind = "text"
    /\ sent' # NoRequest

\* the content of the caller's first message, "" when it has none
FirstContentOrEmpty ==
    IF "content" \in DOMAIN caller_messages[1].d
    THEN caller_messages[1].d.content
    ELSE ""

\* C7 (amended): the client never synthesizes a system message.  A text
\* request carries the caller's messages, as many and in the same order; the
\* only change is that a first message of role=system gets the frontend
\* DevOps paragraph appended to its content (to "" when it has no content),
\* and the caller's list is modified in place.  An empty list is sent empty
\* and a list beginning with another role is sent as it is.
C7_MessagesSentAsGiven ==
    [][ TextRequestStep =>
          /\ Len(sent'.messages) = Len(caller_messages)
          /\ caller_messages' = sent'.messages
          /\ \A i \in 2..Len(caller_messages) :
                 sent'.messages[i] = caller_messages[i]
          /\ Len(caller_messages) > 0 =>
                IF "role" \in DOMAIN caller_messages[1].d
                   /\ caller_messages[1].d.role = "system"
                THEN /\ sent'.messages[1].d.role = "system"
                     /\ sent'.messages[1].d.content
                           = FirstContentOrEmpty \o ExpertiseParagraph
                ELSE sent'.messages[1] = caller_messages[1]
      ]_vars

C7_Witness ==
    /\ last.kind = "text"
    /\ sent # NoRequest
    /\ sent.messages = <<Msg([role |-> "user", content |-> "Will it build?"])>>
    /\ upstream.net = "ok"

\* C8: for a payload with a non-empty "choices" list whose first element
\* carries message.content = X, send_code_review_request returns exactly one
\* issue {description: X, severity: "info"}, exactly one suggestion of
\* priority "medium" and overall_quality "needs_review"; and every severity,
\* priority and overall_quality it returns, on any path, is in
\* {error, warning, info}, {high, medium, low} and
\* {good, needs_improvement, needs_review}
C8_ReviewResult ==
    (last.kind = "review" /\ last.raised = "none")
    => /\ \A i \in 1..Len(last.value.issues) :
              last.value.issues[i].severity \in { "error", "warning", "info" }
       /\ \A i \in 1..Len(last.value.suggestions) :
              last.value.suggestions[i].priority \in { "high", "medium", "low" }
       /\ last.value.overall_quality
              \in { "good", "needs_improvement", "needs_review" }
       /\ (~(upstream.status \in 400..599) /\ GotWellFormed)
          => /\ Len(last.value.issues) = 1
             /\ last.value.issues[1]
                   = [description |-> GotContent.s, severity |-> "info"]
             /\ Len(last.value.suggestions) = 1
             /\ last.value.suggestions[1].priority = "medium"
             /\ last.value.overall_quality = "needs_review"

C8_Witness ==
    /\ last.kind = "review"
    /\ last.raised = "none"
    /\ Received2xx
    /\ GotWellFormed
    /\ GotContent.s = "ok"
    /\ last.value.issues = <<[description |-> "ok", severity |-> "info"]>>

\* C9 as claimed: for a payload with a non-empty "choices" list the chat
\* result's response is the first choice's content and its metadata has
\* exactly the keys model and usage, each the payload's value when present
\* and an empty mapping when absent
C9_MetadataDefaultsToEmptyMapping ==
    (last.kind = "chat" /\ Received2xx /\ GotWellFormed)
    => /\ last.raised = "none"
       /\ last.value.response = GotContent.s
       /\ DOMAIN last.value.metadata = { "model", "usage" }
       /\ last.value.metadata.model =
             IF upstream.body.model.t = "absent" THEN JEmptyDict
             ELSE upstream.body.model
       /\ last.value.metadata.usage =
             IF upstream.body.usage.t = "absent" THEN JEmptyDict
             ELSE upstream.body.usage

\* C9 (amended): for a payload with a non-empty "choices" list whose first
\* element carries a string message content, send_chat_create_request
\* returns a result whose response is that content and whose metadata has
\* exactly the keys model and usage, each the payload's value when present;
\* an absent model defaults to the empty string "" and an absent usage to an
\* empty mapping
C9_ModelDefaultsToEmptyString ==
    (last.kind = "chat" /\ ~(upstream.status \in 400..599) /\ GotWellFormed)
    => /\ last.raised = "none"
       /\ last.value.response = GotContent.s
       /\ DOMAIN last.value.metadata = { "model", "usage" }
       /\ last.value.metadata.model =
             IF upstream.body.model.t = "absent" THEN JStr("")
             ELSE upstream.body.model
       /\ last.value.metadata.usage =
             IF upstream.body.usage.t = "absent" THEN JEmptyDict
             ELSE upstream.body.usage

C9_Witness ==
    /\ last.kind = "chat"
    /\ Received2xx
    /\ GotWellFormed
    /\ upstream.body.model.t = "absent"
    /\ upstream.body.usage.t = "absent"
    /\ last.value.metadata = [model |-> JStr(""), usage |-> JEmptyDict]

---------------------------------------------------------------------------
(* Properties of the change tracker *)

\* the record appended last
LastChange == changes[Len(changes)]

\* C10: record_file_snapshot(path) followed immediately by
\* record_change(agent, path, desc), the file existing and not modified in
\* between, appends a ChangeRecord whose diff is empty (the string without
\* any diff line), whatever the file holds
C10_SnapshotThenRecordGivesEmptyDiff ==
    [][ ( /\ last_op.op = "record_file_snapshot"
          /\ Exists(last_op.path)
          /\ last_op'.op = "record_change"
          /\ last_op'.path = last_op.path )
        => /\ Len(changes') = Len(changes) + 1
           /\ changes'[Len(changes')].file_path = last_op.path
           /\ changes'[Len(changes')].diff = JStr("")
      ]_vars

C10_Witness ==
    /\ last_op.op = "record_change"
    /\ last_op.after = Op("record_file_snapshot", last_op.path)
    /\ last_op.path = WorkflowFile
    /\ Exists(WorkflowFile)
    /\ disk[WorkflowFile].content = "name: CI\non: push"
    /\ Len(changes) > 0
    /\ LastChange.file_path = WorkflowFile
    /\ LastChange.diff = JStr("")

\* the unified diff text record_change stores for old and new content
DiffText(old_content, new_content, file_path) ==
    JStr(JoinLines(UnifiedDiff(SplitLines(old_content), SplitLines(new_content),
                               "previous/" \o file_path, "current/" \o file_path)))

\* a step that appends a record for the path
RecordStep(path) ==
    /\ last_op'.op = "record_change"
    /\ last_op'.path = path
    /\ Len(changes') = Len(changes) + 1

\* C11: after a snapshot of a path, when the file is changed to B and
\* record_change is called, then changed to C and record_change is called
\* again, the second record's diff is the diff from B to C: the baseline has
\* moved forward to the content the first record_change read
C11_SecondDiffIsIncremental ==
    [][ \A p \in Paths :
          ( /\ last_op.op = "write_file"
            /\ last_op.path = p
            /\ last_op.after = Op("record_change", p)
            /\ last_op.after_seen.t = "str"
            /\ Len(changes) > 0
            /\ LastChange.diff # JNull
            /\ RecordStep(p) )
          => changes'[Len(changes')].diff
                = DiffText(last_op.after_seen.s, disk[p].content, p)
      ]_vars

C11_Witness ==
    /\ Len(changes) = 2
    /\ last_op.op = "record_change"
    /\ last_op.after = Op("write_file", WorkflowFile)
    /\ changes[1].file_path = WorkflowFile
    /\ changes[1].diff = JStr("--- previous/.github/workflows/frontend-ci.yml\n+++ current/.github/workflows/frontend-ci.yml\n@@ -0,0 +1 @@\n+name: CI")
    /\ changes[2].file_path = WorkflowFile
    /\ changes[2].diff = JStr("--- previous/.github/workflows/frontend-ci.yml\n+++ current/.github/workflows/frontend-ci.yml\n@@ -1 +1,2 @@\n name: CI\n+on: push")

\* C12 as claimed: after every record_change on a path that exists on disk
\* the stored snapshot of the path is the file's current content, whether or
\* not the path had a snapshot before
C12_RecordAlwaysStoresSnapshot ==
    [][ \A p \in Paths :
          (RecordStep(p) /\ Exists(p))
          => /\ p \in DOMAIN file_snapshots'
             /\ file_snapshots'[p] = disk[p].content
      ]_vars

\* C12 (amended): after a record_change on a path that exists on disk and
\* already has a stored snapshot, the stored snapshot of the path is the
\* file's current content, so a later record_change on the path diffs against
\* this call's content.  On a path without a stored snapshot, or one that
\* does not exist, record_change leaves the snapshots as they are: it stores
\* none, and a later record_change on the path has no diff unless
\* record_file_snapshot is called first.
C12_RecordMovesExistingSnapshot ==
    [][ \A p \in Paths :
          RecordStep(p)
          => /\ (Exists(p) /\ p \in DOMAIN file_snapshots)
                => /\ DOMAIN file_snapshots' = DOMAIN file_snapshots
                   /\ file_snapshots'[p] = disk[p].content
                   /\ \A q \in DOMAIN file_snapshots \ { p } :
                          file_snapshots'[q] = file_snapshots[q]
             /\ ~(Exists(p) /\ p \in DOMAIN file_snapshots)
                => file_snapshots' = file_snapshots
      ]_vars

C12_Witness ==
    /\ last_op.op = "record_change"
    /\ last_op.path = WorkflowFile
    /\ last_op.after = Op("write_file", WorkflowFile)
    /\ Len(changes) = 2
    /\ changes[1].diff = JNull
    /\ Exists(WorkflowFile)
    /\ disk[WorkflowFile].content = "name: CI\non: push"
    /\ WorkflowFile \in DOMAIN file_snapshots
    /\ file_snapshots[WorkflowFile] = "name: CI\non: push"
    /\ LastChange.diff # JNull

\* C13: record_file_snapshot(path) on an existing file stores the file's
\* full current content under the path, replacing an earlier snapshot of the
\* path and leaving the snapshots of the other paths and the change list as
\* they are; on a path that does not exist it changes nothing
C13_SnapshotFrame ==
    [][ \A p \in Paths :
          (last_op'.op = "record_file_snapshot" /\ last_op'.path = p)
          => /\ changes' = changes
             /\ disk' = disk
             /\ IF Exists(p)
                THEN /\ DOMAIN file_snapshots' = DOMAIN file_snapshots \cup { p }
                     /\ file_snapshots'[p] = disk[p].content
                     /\ \A q \in DOMAIN file_snapshots \ { p } :
                            file_snapshots'[q] = file_snapshots[q]
                ELSE file_snapshots' = file_snapshots
      ]_vars

C13_Witness ==
    /\ last_op.op = "record_file_snapshot"
    /\ last_op.path = WorkflowFile
    /\ last_op.after = Op("write_file", WorkflowFile)
    /\ disk[WorkflowFile].content = "name: CI"
    /\ DOMAIN file_snapshots = Paths
    /\ file_snapshots[WorkflowFile] = "name: CI"
    /\ file_snapshots[DockerfilePath] = "FROM node:18-alpine\n"

---------------------------------------------------------------------------
(* Properties of generate_documentation *)

\* the last generate_documentation call found records and asked upstream
DocumentationRequested == documentation.via \in { "llm", "fallback" }

\* the text-generation call failed: it raised, or returned an error result
TextCallFailed ==
    \/ last.raised # "none"
    \/ last.value.status = "error"

\* C14: with at least one ChangeRecord, generate_documentation returns
\* non-empty text, and whenever the text-generation call failed (HTTP error,
\* network failure, payload without choices, error-shaped result) it returns
\* the template summary built from the ChangeRecords
C14_FallbackOnAnyFailure ==
    DocumentationRequested
    => /\ documentation.text # ""
       /\ TextCallFailed
          => documentation
                = DocReturned("fallback", GenerateSimpleDocumentation(changes, clock))

\* C15: a generate_documentation call that returns a summary for N>0
\* records has written the returned text, LLM-generated or template
\* fallback, to the timestamped file of the output directory
C15_ReturnedTextIsSaved ==
    DocumentationRequested
    => /\ DocFilename(clock) \in DOMAIN doc_files
       /\ doc_files[DocFilename(clock)] = documentation.text

\* C16: generate_documentation called when no ChangeRecord has been recorded
\* returns the fixed "no changes recorded" text, makes no upstream call and
\* writes no file
C16_NoChangesLiteral ==
    [][ (changes = <<>> /\ documentation' # documentation)
        => /\ documentation'.text
                = "# DevGenius Change Documentation\n\nNo changes have been recorded yet."
           /\ calls' = calls
           /\ sent' = sent
           /\ upstream' = upstream
           /\ last' = last
           /\ doc_files' = doc_files
           /\ changes' = changes
      ]_vars

C16_Witness ==
    /\ changes = <<>>
    /\ documentation.via = "literal"
    /\ documentation.text
          = "# DevGenius Change Documentation\n\nNo changes have been recorded yet."
    /\ calls = 0
    /\ sent = NoRequest
    /\ doc_files = EmptyDict

---------------------------------------------------------------------------
(* Properties of main *)

\* the agent names of the ChangeRecords, in the order they were recorded
AgentNames(chs) == [i \in 1..Len(chs) |-> chs[i].agent_name]

\* the first n stages, in the fixed order
FirstStages(n) == SubSeq(StageNames, 1, n)

C18_NoStageAborts ==
    [][ StageOf(pc) # "none"
        => /\ pc' # "aborted"
           /\ StageOf(pc') # StageOf(pc)
              => /\ stages' = Append(stages, StageOf(pc))
                 /\ Len(stages') <= Len(StageAgents)
                    => AgentNames(changes') = SubSeq(StageAgents, 1, Len(stages'))
      ]_vars

\* the last upstream answer was HTTP 500
UpstreamGot500 == upstream.net = "ok" /\ upstream.status = 500

\* details.error is populated
ErrorPopulated(details) ==
    /\ "error" \in DOMAIN details
    /\ Truthy(details["error"])

\* C19: when the upstream call of tech-stack detection or of build
\* prediction receives HTTP 500, the client returns an error-shaped result
\* and the stage appends exactly one ChangeRecord, whose details hold a
\* populated "error" entry
C19_Http500RecordedAsError ==
    /\ (pc = "snapshot_workflow" /\ UpstreamGot500)
       => /\ ErrorShaped
          /\ AgentNames(changes) = <<"TechStackAgent">>
          /\ ErrorPopulated(changes[1].details)
    /\ (pc = "generate_documentation" /\ UpstreamGot500)
       => /\ ErrorShaped
          /\ Len(ChangesOf(changes, "BuildPredictorAgent")) = 1
          /\ ErrorPopulated(changes[Len(changes)].details)

\* C20: a configuration with a missing required field makes the
\* construction of the configuration raise a validation error that leaves
\* main before any stage has run, any file has been written and any
\* ChangeRecord has been created, and nothing else makes main end with an
\* exception
C20_OnlyConfigurationAborts ==
    [][ (pc # "aborted" /\ pc' = "aborted")
        => /\ pc = "configure"
           /\ raised' = "ValidationError"
           /\ stages' = <<>>
           /\ changes' = <<>>
           /\ disk' = disk
           /\ doc_files' = doc_files
           /\ calls' = 0
      ]_vars

---------------------------------------------------------------------------
(* Properties of the agent methods *)

\* the last call was generate_pipeline and it returned a text
PipelineGenerated == called.op = "generate_pipeline" /\ called.result.exc = "none"

\* the positions of a text at which sub occurs
Occurrences(s, sub) ==
    { i \in 1..(Len(s) - Len(sub) + 1) : SubSeq(s, i, i + Len(sub) - 1) = sub }

\* the number of lint steps of a workflow text
LintSteps(text) == Cardinality(Occurrences(text, "- name: Lint "))

\* C21: for the descriptor Vue / Webpack / Bootstrap without TypeScript and
\* tests and linting enabled, the generated workflow contains
\* "npm run test:unit" and not the TypeScript lint step; for every
\* descriptor, with linting enabled the workflow has exactly one lint step,
\* the TypeScript one exactly when the descriptor's flag is true
C21_TestCommandAndOneLintStep ==
    PipelineGenerated
    => /\ (/\ called.tech_stack = VueWebpackDescriptor
           /\ called.config.run_tests
           /\ called.config.run_linting)
          => /\ Contains(called.result.text, "npm run test:unit")
             /\ ~Contains(called.result.text, "Lint TypeScript code")
       /\ called.config.run_linting
          => /\ LintSteps(called.result.text) = 1
             /\ Contains(called.result.text, "- name: Lint TypeScript code")
                <=> called.tech_stack.typescript = JBool(TRUE)
             /\ Contains(called.result.text, "- name: Lint JavaScript code")
                <=> called.tech_stack.typescript = JBool(FALSE)

C21_Witness ==
    /\ PipelineGenerated
    /\ called.tech_stack = VueWebpackDescriptor
    /\ called.config.run_tests
    /\ called.config.run_linting
    /\ Contains(called.result.text, "npm run test:unit")
    /\ LintSteps(called.result.text) = 1

---------------------------------------------------------------------------
(* Properties of the change tracking, continued *)

\* a snapshot of the path is held and the path exists on disk
SnapshotAndFile(path) == path \in DOMAIN file_snapshots /\ Exists(path)

\* C22: record_change produces a diff exactly when a snapshot of the path
\* is held and the path exists on disk; otherwise the diff is absent, no
\* error is raised, the record is appended all the same and the snapshots
\* are left as they were
C22_DiffIffSnapshotAndFile ==
    [][ \A p \in Paths :
          RecordStep(p)
          => /\ SubSeq(changes', 1, Len(changes)) = changes
             /\ changes'[Len(changes')].file_path = p
             /\ changes'[Len(changes')].diff # JNull <=> SnapshotAndFile(p)
             /\ ~SnapshotAndFile(p) => file_snapshots' = file_snapshots
      ]_vars

\* a change of a removed file was recorded while its snapshot was held
C22_Witness ==
    /\ last_op.op = "record_change"
    /\ last_op.path \in DOMAIN file_snapshots
    /\ ~Exists(last_op.path)
    /\ LastChange.file_path = last_op.path
    /\ LastChange.diff = JNull

\* the statements of main that call record_change
RecordStatements ==
    { "record_tech_stack", "record_pipeline", "record_dockerfile",
      "record_status", "record_prediction" }

\* C23: the list of changes is append-only: every record_change adds one
\* record at the end, and no operation (record_file_snapshot,
\* record_change, generate_documentation) removes, reorders or modifies a
\* record appended before
C23_ChangesAppendOnly ==
    [][ /\ Len(changes') >= Len(changes)
        /\ SubSeq(changes', 1, Len(changes)) = changes
        /\ pc \in RecordStatements => Len(changes') = Len(changes) + 1
        /\ pc \notin RecordStatements => changes' = changes
      ]_vars

\* a run has taken both snapshots, recorded its five changes and generated
\* the documentation from them
C23_Witness ==
    /\ pc = "done"
    /\ Len(changes) = Cardinality(RecordStatements)
    /\ DOMAIN file_snapshots # {}
    /\ documentation # NoDocumentation
    /\ \A i \in 1..Len(changes) : changes[i].timestamp = i - 1

---------------------------------------------------------------------------
(* Properties of generate_documentation, continued *)

\* the position of the only occurrence of sub in a text, 0 when it does not
\* occur exactly once
PositionOf(text, sub) ==
    CHOOSE position \in
        { IF Cardinality(found) = 1 THEN CHOOSE i \in found : TRUE ELSE 0 :
            found \in { Occurrences(text, sub) } } : TRUE

\* the index of the first record of an agent
FirstChangeOf(chs, agent_name) ==
    CHOOSE i \in 1..Len(chs) :
        /\ chs[i].agent_name = agent_name
        /\ \A j \in 1..(i - 1) : chs[j].agent_name # agent_name

\* a text lists the records grouped by agent: one "## Changes by" header
\* for each agent that recorded, the headers in the order in which the
\* agents first recorded, every record (known by its timestamp) once, under
\* the header of its agent, and the records of one agent in the order in
\* which they were recorded
GroupedAsRecorded(text, chs) ==
    \E names \in { { chs[i].agent_name : i \in 1..Len(chs) } } :
    \E header \in { [name \in names |->
                        PositionOf(text, "## Changes by " \o name \o "\n\n")] } :
    \E entry \in { [i \in 1..Len(chs) |->
                       PositionOf(text, ": " \o TimestampText(chs[i].timestamp) \o "\n")] } :
        /\ Cardinality(Occurrences(text, "## Changes by ")) = Cardinality(names)
        /\ \A name \in names : header[name] > 0
        /\ \A a, b \in names :
              FirstChangeOf(chs, a) < FirstChangeOf(chs, b) => header[a] < header[b]
        /\ \A i \in 1..Len(chs) :
              /\ entry[i] > header[chs[i].agent_name]
              /\ \A name \in names :
                    header[name] < entry[i] => header[name] <= header[chs[i].agent_name]
        /\ \A i, j \in 1..Len(chs) :
              (i < j /\ chs[i].agent_name = chs[j].agent_name) => entry[i] < entry[j]

\* the prompt of the documentation request sent last
PromptSent == sent.messages[2].d.content

\* C24: generate_documentation groups the records by agent_name, the
\* groups in the order in which the agents first recorded, every record in
\* exactly one group and in recording order inside it; the prompt and the
\* fallback summary both list the groups in that order
C24_GroupedByAgentInFirstSeenOrder ==
    calls > 0
    => /\ GroupedAsRecorded(PromptSent, changes)
       /\ documentation.via = "fallback"
          => GroupedAsRecorded(documentation.text, changes)

\* the fallback summary was returned for three records, the first and the
\* last of one agent, the second of another
C24_Witness ==
    /\ calls > 0
    /\ documentation.via = "fallback"
    /\ Len(changes) = 3
    /\ changes[1].agent_name = changes[3].agent_name
    /\ changes[2].agent_name # changes[1].agent_name

---------------------------------------------------------------------------
(* Properties of the agent methods, continued *)

\* the four signals of the build status, in the order of the claim
SignalOrder == <<"image", "container", "health", "port">>

\* a signal passes on a machine: the image exists, a container runs, its
\* health is exactly "healthy", the port answers with exactly 200
SignalPasses(d, signal) ==
    IF signal = "image" THEN d.docker /\ Strip(d.images) # ""
    ELSE IF signal = "container" THEN d.docker /\ Strip(d.ps) # ""
    ELSE IF signal = "health" THEN d.docker /\ Strip(d.health) = "healthy"
    ELSE d.curl /\ Strip(d.http_code) = "200"

\* how a failure status names a signal
FailureNaming(signal) ==
    IF signal = "image" THEN "Docker image not found"
    ELSE IF signal = "container" THEN "No running container found"
    ELSE IF signal = "health" THEN "Container health check failed"
    ELSE "Application not responding on port"

\* the signals up to and including the first one that does not pass
UpToFirstFailing(d) ==
    IF \E k \in 1..Len(SignalOrder) : ~SignalPasses(d, SignalOrder[k])
    THEN SubSeq(SignalOrder, 1,
                CHOOSE k \in 1..Len(SignalOrder) :
                    /\ ~SignalPasses(d, SignalOrder[k])
                    /\ \A j \in 1..(k - 1) : SignalPasses(d, SignalOrder[j]))
    ELSE SignalOrder

\* C25: check_build_status evaluates the signals in the order image,
\* running container, container health, port, and stops at the first one
\* that fails; it returns a "success:" status exactly when every signal
\* passes and otherwise a "failure:" status naming the first failing signal
C25_FirstFailingSignalNamed ==
    called.op = "check_build_status"
    => /\ called.evaluated = UpToFirstFailing(called.machine)
       /\ called.result.exc = "none"
       /\ StartsWith(called.result.status, "success:")
          <=> \A k \in 1..Len(SignalOrder) : SignalPasses(called.machine, SignalOrder[k])
       /\ (\E k \in 1..Len(SignalOrder) : ~SignalPasses(called.machine, SignalOrder[k]))
          => /\ StartsWith(called.result.status, "failure:")
             /\ Contains(called.result.status,
                         FailureNaming(called.evaluated[Len(called.evaluated)]))

\* the last call was generate_dockerfile and it returned a text
DockerfileGenerated == called.op = "generate_dockerfile" /\ called.result.exc = "none"

\* the output directory and the serve command the claim gives a build tool
OutputDirClaimed(build_tool) ==
    IF Lower(build_tool) = "next.js" THEN ".next"
    ELSE IF Lower(build_tool) = "angular" THEN "dist/frontend"
    ELSE "dist"

ServeClaimed(build_tool, port) ==
    IF Lower(build_tool) = "next.js" THEN "next start"
    ELSE IF Lower(build_tool) = "angular" THEN "angular-http-server"
    ELSE "serve -s dist -l " \o ToString(port)

\* the Dockerfile copies the output directory of the build tool and serves
\* with the build tool's command
PerBuildTool(text, config, build_tool) ==
    /\ Contains(text, "COPY --from=build " \o config.work_dir \o "/"
                          \o OutputDirClaimed(build_tool) \o " ./"
                          \o OutputDirClaimed(build_tool) \o "\n")
    /\ Contains(text, "\nCMD " \o ServeClaimed(build_tool, config.expose_port))

\* C26: the generated Dockerfile reflects the configured build command and
\* the configured serve command, and its output directory and serve command
\* follow the build tool: ".next" and "next start" for Next.js,
\* "dist/frontend" and "angular-http-server" for Angular, "dist" served by
\* "serve -s dist" on the configured port for every other build tool
C26_CommandsFollowBuildToolAndConfig ==
    DockerfileGenerated
    => /\ Contains(called.result.text, "RUN " \o called.config.build_command \o "\n")
       /\ Contains(called.result.text, called.config.serve_command)
       /\ PerBuildTool(called.result.text, called.config,
                       PyStr(BuildToolOf(called.tech_stack)))

---------------------------------------------------------------------------
(* Properties of the client, continued *)

\* the copies of the expertise paragraph in the first message of a list
ParagraphCopies(messages) ==
    IF Len(messages) > 0 /\ messages[1].t = "dict" /\ "content" \in DOMAIN messages[1].d
    THEN Cardinality(Occurrences(messages[1].d.content, ExpertiseParagraph))
    ELSE 0

\* the first message of a list is a mapping of role system
FirstIsSystem(messages) ==
    /\ Len(messages) > 0
    /\ messages[1].t = "dict"
    /\ "role" \in DOMAIN messages[1].d
    /\ messages[1].d.role = "system"

\* C27: send_inference_request modifies the caller's list in place: when
\* the first message has role system, each call appends the expertise
\* paragraph to its content once more, so that k calls leave k copies; the
\* other messages, and a first message of another role, are left as they
\* were
C27_ParagraphAppendedOnEveryCall ==
    [][ TextRequestStep
        => /\ Len(caller_messages') = Len(caller_messages)
           /\ \A i \in 2..Len(caller_messages) : caller_messages'[i] = caller_messages[i]
           /\ IF FirstIsSystem(caller_messages)
              THEN /\ caller_messages'[1].d.content
                         = FirstContentOrEmpty \o ExpertiseParagraph
                   /\ ParagraphCopies(caller_messages')
                         = ParagraphCopies(caller_messages) + 1
                   /\ \A k \in DOMAIN caller_messages[1].d \ { "content" } :
                         caller_messages'[1].d[k] = caller_messages[1].d[k]
              ELSE caller_messages' = caller_messages
      ]_vars

\* two calls with the same list have left two copies of the paragraph
C27_Witness ==
    /\ calls = 2
    /\ last.kind = "text"
    /\ Len(caller_messages) = 2
    /\ caller_messages[1].d.content
          = "You are a build analyst." \o ExpertiseParagraph \o ExpertiseParagraph
    /\ ParagraphCopies(caller_messages) = 2

\* the text before the first line feed of a text
BeforeFirstNewline(text) ==
    IF Occurrences(text, "\n") = {} THEN text
    ELSE SubSeq(text, 1, (CHOOSE i \in Occurrences(text, "\n") :
                              \A j \in Occurrences(text, "\n") : i <= j) - 1)

\* neither the framework nor the build tool of a descriptor contains "FROM"
NamesWithoutFrom(ts) ==
    /\ ~Contains(PyStr(FrameworkOf(ts)), "FROM")
    /\ ~Contains(PyStr(BuildToolOf(ts)), "FROM")

---------------------------------------------------------------------------
(* Properties of the chat agent *)

\* a step of run
RunStep == calls' = calls + 1 /\ called'.op = "run"

\* the response text of the chat result run has got
ChatText == called'.response.response

\* run has posted one comment with the text and returned status "success"
PostedWithSuccess ==
    /\ pr_comments' = Append(pr_comments, CommentOf(ChatText))
    /\ called'.raised = "none"
    /\ "status" \in DOMAIN called'.result
    /\ called'.result.status = JStr("success")
    /\ called'.result.bot_response = JStr(ChatText)

\* run has taken its error branch: no comment, the error dictionary
ErrorBranch ==
    /\ pr_comments' = pr_comments
    /\ called'.raised = "none"
    /\ DOMAIN called'.result = { "error" }

\* the upstream call failed: no answer, an HTTP error status, a body that
\* is no JSON, or a body without choices
UpstreamFailed ==
    \/ ReceiveExc(upstream') # "none"
    \/ HasChoices(upstream'.body) # "yes"

\* the upstream answered 200 with a first choice whose content is empty
\* (or absent, read as "")
EmptyContentReply ==
    /\ upstream'.net = "ok"
    /\ upstream'.status = 200
    /\ upstream'.body.json = "object"
    /\ HasChoices(upstream'.body) = "yes"
    /\ FirstContent(upstream'.body).exc = "none"
    /\ FirstContent(upstream'.body).content = JStr("")

ChatInteractionMade == called.op = "perform_chat_interaction"

\* the payload of a chat request of the agent whatever its context: the
\* fixed frontend DevOps prompt as system message, then the user message
PayloadWhateverContext ==
    [url |-> RequestURL(api_endpoint),
     model |-> called.config.chat_model_id,
     messages |-> <<Msg([role |-> "system", content |-> FrontendDevOpsContext]),
                    Msg([role |-> "user", content |-> called.user_message])>>]

=============================================================================
